---- MODULE Spec2Model ----
(***************************************************************************)
(* ATHLETICA OS: the journals' selection engine (strength, cardio and      *)
(* nutrition views), the CSV export serializer and its delivery.           *)
(*                                                                         *)
(* Text is modelled as a sequence of one-character strings, so that        *)
(* includes, toLowerCase, trim, replace, join and split are computed on    *)
(* the characters.  Calendar days written YYYY-MM-DD are modelled as the   *)
(* number YYYYMMDD, whose order is the lexicographic order of the text;    *)
(* days written DD/MM/YYYY are numbers above all of these.                 *)
(***************************************************************************)
EXTENDS Integers, Sequences, FiniteSets, TLC

VARIABLES
    activeTab,          \* App: the mounted view
    training,           \* App: TrainingLog[]
    routines,           \* App: UserRoutine[]
    activitySessions,   \* App: ActivitySession[]
    cardioTypes,        \* App: CardioType[]
    nutrition,          \* App: NutritionLog[]
    nutrients,          \* App: NutrientConfig[]
    canShare,           \* platform: navigator.share && navigator.canShare({files})
    sleep,              \* App: SleepLog[]
    today,              \* environment: the current calendar day
    timeZoneWest,       \* environment: local time is behind UTC
    order,              \* AtelierMuscu: order of the next exercise of the session
    editingRoutineId,   \* AtelierMuscu: routine shown in the editor, or NoRoutine
    confirmDelete,      \* AtelierMuscu: the delete link has been pressed once
    isEditMode,         \* mounted journal: selection mode
    selectedIds,        \* mounted journal: selectedSessionIds / selectedDates
    showBulkMenu,       \* mounted journal: smart-filter menu open
    searchQuery,        \* mounted journal: searchQuery / historySearch
    analyzedExercise,   \* AtelierMuscu: exercise under analysis, or NoExercise
    visibleColumns,     \* NutritionView: ids of the displayed nutrient columns
    args,               \* downloadCSV: the headers and rows of the latest call
    csvContent,         \* downloadCSV: the text serialized by the latest call
    dlPc,               \* downloadCSV: "idle", "sharing" (share pending), "done"
    caller,             \* the handler awaiting the pending downloadCSV call
    shared,             \* the file content handed to navigator.share, if any
    downloaded,         \* the file content handed to the download link, if any
    lastOp,             \* the handler that ran last (history)
    preSel,             \* selection before the current run of equal smart-selects
    streak,             \* length of the current run of equal smart-selects
    storage,            \* localStorage: the text saved under each key, if any
    aiData,             \* App: the analysis result, or Null
    aiLoading,          \* App: an analysis has been started and has not returned
    requests,           \* the calls of handleRunAnalysis awaiting their response
    subTab,             \* AnalysisView: "dashboard" or "chat"
    messages,           \* AnalysisView: the chat messages
    isChatLoading,      \* AnalysisView: a chat message awaits its answer
    chatPending         \* the calls of handleSendMessage awaiting their response

vars == <<activeTab, training, routines, activitySessions, cardioTypes, nutrition,
          nutrients, canShare, isEditMode, selectedIds, showBulkMenu, searchQuery,
          analyzedExercise, visibleColumns, args, csvContent, dlPc, caller, shared,
          downloaded, lastOp, preSel, streak, sleep, today, timeZoneWest, order,
          editingRoutineId, confirmDelete, storage, aiData, aiLoading, requests,
          subTab, messages, isChatLoading, chatPending>>

storeVars == <<training, routines, activitySessions, cardioTypes, nutrition,
               nutrients, canShare, storage>>

labVars == <<aiData, aiLoading, requests, subTab, messages, isChatLoading, chatPending>>

viewVars == <<isEditMode, selectedIds, showBulkMenu, searchQuery, analyzedExercise,
              visibleColumns>>

appVars == <<sleep, today, timeZoneWest>>

formVars == <<order, editingRoutineId, confirmDelete>>

csvVars == <<args, csvContent, dlPc, caller, shared, downloaded>>

(***************************************************************************)
(* Bounds of the serializer's inputs.                                      *)
(***************************************************************************)
MaxCellLen == 1
MaxCells == 2

(***************************************************************************)
(* Text helpers (JavaScript String methods).                               *)
(***************************************************************************)
UpperChars == <<"A","B","C","D","E","F","G","H","I","J","K","L","M",
                "N","O","P","Q","R","S","T","U","V","W","X","Y","Z">>
LowerChars == <<"a","b","c","d","e","f","g","h","i","j","k","l","m",
                "n","o","p","q","r","s","t","u","v","w","x","y","z">>

LowerChar(c) ==
    IF \E i \in 1..Len(UpperChars) : UpperChars[i] = c
    THEN LowerChars[CHOOSE i \in 1..Len(UpperChars) : UpperChars[i] = c]
    ELSE c

toLowerCase(s) == [i \in 1..Len(s) |-> LowerChar(s[i])]

includes(s, q) ==
    \E i \in 0..(Len(s) - Len(q)) : SubSeq(s, i + 1, i + Len(q)) = q

IsSpace(c) == c \in {" ", "\n"}

RECURSIVE trimStart(_)
trimStart(s) ==
    IF s # <<>> /\ IsSpace(Head(s)) THEN trimStart(Tail(s)) ELSE s

RECURSIVE trimEnd(_)
trimEnd(s) ==
    IF s # <<>> /\ IsSpace(s[Len(s)]) THEN trimEnd(SubSeq(s, 1, Len(s) - 1)) ELSE s

trim(s) == trimEnd(trimStart(s))

RECURSIVE join(_, _)
join(parts, sep) ==
    IF parts = <<>> THEN <<>>
    ELSE IF Len(parts) = 1 THEN parts[1]
    ELSE parts[1] \o sep \o join(Tail(parts), sep)

Digits == <<"0","1","2","3","4","5","6","7","8","9">>

RECURSIVE NatToStr(_)
NatToStr(n) ==
    IF n < 10 THEN <<Digits[n + 1]>>
    ELSE NatToStr(n \div 10) \o <<Digits[(n % 10) + 1]>>

(***************************************************************************)
(* Cells are string | number.                                              *)
(***************************************************************************)
\* numbers of the stores are naturals; NaN and the null that JSON writes for
\* it are the two codes below zero
NaN == 0 - 1
JsonNull == 0 - 2

Falsy(n) == n = 0 \/ n = NaN \/ n = JsonNull

StrCell(s) == [t |-> "str", v |-> s]
NumCell(n) == [t |-> "num", v |-> n]

String(cell) == IF cell.t = "num" THEN NatToStr(cell.v) ELSE cell.v

(***************************************************************************)
(* exportService.ts: downloadCSV, the serialization.                       *)
(***************************************************************************)
BOM == "BOM"
Comma == ","
Quote == "\""
Newline == "\n"

RECURSIVE ReplaceQuotes(_)
ReplaceQuotes(s) ==
    IF s = <<>> THEN <<>>
    ELSE (IF Head(s) = Quote THEN <<Quote, Quote>> ELSE <<Head(s)>>)
         \o ReplaceQuotes(Tail(s))

NeedsQuotingNoNewline(cellStr) ==
    includes(cellStr, <<Comma>>) \/ includes(cellStr, <<Quote>>)

NeedsQuoting(cellStr) ==
    \/ includes(cellStr, <<Comma>>)
    \/ includes(cellStr, <<Quote>>)
    \/ includes(cellStr, <<Newline>>)

EscapeCell(cell) ==
    LET cellStr == String(cell)
    IN  IF NeedsQuoting(cellStr)
        THEN <<Quote>> \o ReplaceQuotes(cellStr) \o <<Quote>>
        ELSE cellStr

SerializeRow(row) ==
    join([i \in 1..Len(row) |-> EscapeCell(row[i])], <<Comma>>)

SerializeReversed(headers, rows) ==
    <<BOM>> \o join(<<join(headers, <<Comma>>)>>
                    \o [i \in 1..Len(rows) |-> SerializeRow(rows[Len(rows) + 1 - i])],
                    <<Newline>>)

Serialize(headers, rows) ==
    <<BOM>> \o join(<<join(headers, <<Comma>>)>>
                    \o [i \in 1..Len(rows) |-> SerializeRow(rows[i])],
                    <<Newline>>)

(***************************************************************************)
(* exportService.ts: downloadCSV, the delivery.  The Blob and the File     *)
(* built from it carry csvContent; a file is modelled by its content.      *)
(***************************************************************************)
NoFile == <<>>
NoArgs == [headers |-> <<>>, rows |-> <<>>]
NoOp == [op |-> "init", crit |-> "", value |-> <<>>]
Op(name) == [op |-> name, crit |-> "", value |-> <<>>]

\* line 22: the native share is attempted
ShareAttempted(supported) == supported

FallbackAlways(supported, outcome) == TRUE

\* lines 22-36: the classic download is reached
FallbackNeeded(supported, outcome) == ~supported \/ outcome = "rejected"

\* lines 18-19: new File([new Blob([csvContent])])
FileOf(content) == content

(***************************************************************************)
(* Inputs of a direct call of downloadCSV.                                 *)
(***************************************************************************)
CsvAlphabet == {"a", Comma, Quote, Newline}
CellStrings == UNION {[1..k -> CsvAlphabet] : k \in 0..MaxCellLen}
SpecExampleCell == <<"a", Comma, Quote, "b", Quote, Newline, "c">>
Cells == {StrCell(s) : s \in CellStrings \cup {SpecExampleCell}}
Rows == UNION {[1..k -> Cells] : k \in 1..MaxCells}
FixedRow == <<NumCell(120), StrCell(<<"a">>)>>
Tables == {<<>>} \cup {<<r>> : r \in Rows}
          \cup {<<r, FixedRow>> : r \in Rows} \cup {<<FixedRow, r>> : r \in Rows}
HeaderChoices == { <<<<"D">>, <<"k", "g">>>>, <<<<"a", Comma>>>> }

(***************************************************************************)
(* Dates.  MkDate(y, m, d) stands for the text YYYY-MM-DD.                 *)
(***************************************************************************)
MkDate(y, m, d) == y * 10000 + m * 100 + d
YearOf(date) == date \div 10000
MonthOf(date) == (date \div 100) % 100
DayOf(date) == date % 100

Pad2(n) == IF n < 10 THEN <<"0">> \o NatToStr(n) ELSE NatToStr(n)

\* a date stored as DD/MM/YYYY: a number above every YYYYMMDD
SlashDate(dd, mm, yyyy) == 100000000 + dd * 1000000 + mm * 10000 + yyyy

IsIso(date) == date < 100000000

FirstField(date) == (date \div 1000000) % 100
SecondField(date) == (date \div 10000) % 100
LastField(date) == date % 10000

\* the stored text of a date
DateStr(date) ==
    IF IsIso(date)
    THEN NatToStr(YearOf(date)) \o <<"-">> \o Pad2(MonthOf(date)) \o <<"-">> \o Pad2(DayOf(date))
    ELSE Pad2(FirstField(date)) \o <<"/">> \o Pad2(SecondField(date)) \o <<"/">>
         \o NatToStr(LastField(date))

InvalidDate == 0

IsLeap(y) == (y % 4 = 0 /\ y % 100 # 0) \/ y % 400 = 0

DaysIn(y, m) ==
    IF m = 2 THEN (IF IsLeap(y) THEN 29 ELSE 28)
    ELSE IF m \in {4, 6, 9, 11} THEN 30 ELSE 31

PrevDay(day) ==
    IF DayOf(day) > 1 THEN day - 1
    ELSE IF MonthOf(day) > 1
         THEN MkDate(YearOf(day), MonthOf(day) - 1, DaysIn(YearOf(day), MonthOf(day) - 1))
         ELSE MkDate(YearOf(day) - 1, 12, 31)

NextDay(day) ==
    IF DayOf(day) < DaysIn(YearOf(day), MonthOf(day)) THEN day + 1
    ELSE IF MonthOf(day) < 12 THEN MkDate(YearOf(day), MonthOf(day) + 1, 1)
         ELSE MkDate(YearOf(day) + 1, 1, 1)

\* new Date(text): the day the text denotes to the parser.  YYYY-MM-DD is
\* read as that day at 00:00 UTC; text with slashes is read as
\* month/day/year in local time, and is invalid when the first field is
\* not a month.
ParsedDay(date) ==
    IF IsIso(date) THEN date
    ELSE IF FirstField(date) \in 1..12 /\ SecondField(date) \in 1..31
         THEN MkDate(LastField(date), FirstField(date), SecondField(date))
         ELSE InvalidDate

\* new Date(date).getTime(), in days; InvalidDate stands for NaN
DateTime(date) == ParsedDay(date)

\* a - b on times: NaN when either is, which a comparator and || read as 0
TimeDiff(a, b) == IF a = InvalidDate \/ b = InvalidDate THEN 0 ELSE a - b

\* the local calendar day of new Date(text): 00:00 UTC is still the day
\* before where local time is behind UTC
LocalDay(date) ==
    IF IsIso(date) THEN (IF timeZoneWest THEN PrevDay(date) ELSE date)
    ELSE ParsedDay(date)

MonthNames == <<"JANVIER", "FEVRIER", "MARS", "AVRIL", "MAI", "JUIN", "JUILLET",
                "AOUT", "SEPTEMBRE", "OCTOBRE", "NOVEMBRE", "DECEMBRE">>

\* toLocaleDateString('fr-FR', {month:'long', year:'numeric'}).toUpperCase()
\* of a local calendar day
MonthLabel(day) ==
    IF day = InvalidDate THEN <<"INVALID DATE">>
    ELSE <<MonthNames[MonthOf(day)], " ">> \o NatToStr(YearOf(day))

\* new Date(text).toLocaleDateString(...).toUpperCase() of a stored date
MonthLabelOf(date) == MonthLabel(LocalDay(date))

Today == MkDate(2024, 3, 15)

(***************************************************************************)
(* String.prototype.localeCompare: letters compare without case first,     *)
(* punctuation and space before digits before letters; on a tie the        *)
(* lowercase letter comes first.  Result -1, 0 or 1.                       *)
(***************************************************************************)
CollationOrder == <<" ", ",", ":", "\"", "\n", "-", "'", "/", "0","1","2","3","4","5","6","7","8","9",
                    "a","b","c","d","e","f","g","h","i","j","k","l","m",
                    "n","o","p","q","r","s","t","u","v","w","x","y","z">>

PrimaryRank(c) ==
    LET l == LowerChar(c)
    IN  IF \E i \in 1..Len(CollationOrder) : CollationOrder[i] = l
        THEN CHOOSE i \in 1..Len(CollationOrder) : CollationOrder[i] = l
        ELSE 0

RECURSIVE ComparePrimary(_, _)
ComparePrimary(a, b) ==
    IF a = <<>> /\ b = <<>> THEN 0
    ELSE IF a = <<>> THEN -1
    ELSE IF b = <<>> THEN 1
    ELSE IF PrimaryRank(Head(a)) < PrimaryRank(Head(b)) THEN -1
    ELSE IF PrimaryRank(Head(a)) > PrimaryRank(Head(b)) THEN 1
    ELSE ComparePrimary(Tail(a), Tail(b))

RECURSIVE CompareCase(_, _)
CompareCase(a, b) ==
    IF a = <<>> \/ b = <<>> THEN 0
    ELSE IF Head(a) = Head(b) THEN CompareCase(Tail(a), Tail(b))
    ELSE IF Head(a) = LowerChar(Head(a)) THEN -1 ELSE 1

localeCompare(a, b) ==
    IF ComparePrimary(a, b) # 0 THEN ComparePrimary(a, b) ELSE CompareCase(a, b)

(***************************************************************************)
(* The comparators handed to Array.prototype.sort.                         *)
(***************************************************************************)
Sign(n) == IF n < 0 THEN -1 ELSE IF n > 0 THEN 1 ELSE 0

\* timelineData: b.date.localeCompare(a.date)
ByDateDesc(a, b) ==
    IF IsIso(a.date) /\ IsIso(b.date) THEN Sign(b.date - a.date)
    ELSE localeCompare(DateStr(b.date), DateStr(a.date))

\* new Date(b.date).getTime() - new Date(a.date).getTime()
ByTimeDesc(a, b) == Sign(TimeDiff(DateTime(b.date), DateTime(a.date)))

\* handleExport (strength): date descending, session, order, set number
ByExportOrder(a, b) ==
    IF ByTimeDesc(a, b) # 0 THEN ByTimeDesc(a, b)
    ELSE IF localeCompare(a.session, b.session) # 0 THEN localeCompare(a.session, b.session)
    ELSE IF a.order # b.order THEN Sign(a.order - b.order)
    ELSE Sign(a.setNum - b.setNum)

\* analyticsData: new Date(a.date).getTime() - new Date(b.date).getTime()
ByTimeAsc(a, b) == Sign(TimeDiff(DateTime(a.date), DateTime(b.date)))

\* analyticsData: a.setNum - b.setNum
BySetNum(a, b) == Sign(a.setNum - b.setNum)

Compare(by, a, b) ==
    CASE by = "dateDesc" -> ByDateDesc(a, b)
      [] by = "timeDesc" -> ByTimeDesc(a, b)
      [] by = "exportOrder" -> ByExportOrder(a, b)
      [] by = "timeAsc" -> ByTimeAsc(a, b)
      [] by = "setNum" -> BySetNum(a, b)

(***************************************************************************)
(* Array.prototype.sort is stable: an element is placed after every        *)
(* element it does not strictly precede.                                   *)
(***************************************************************************)
RECURSIVE InsertSorted(_, _, _)
InsertSorted(x, sorted, by) ==
    IF sorted = <<>> THEN <<x>>
    ELSE IF Compare(by, x, sorted[Len(sorted)]) < 0
         THEN InsertSorted(x, SubSeq(sorted, 1, Len(sorted) - 1), by) \o <<sorted[Len(sorted)]>>
         ELSE sorted \o <<x>>

RECURSIVE SortBy(_, _)
SortBy(seq, by) ==
    IF seq = <<>> THEN <<>>
    ELSE InsertSorted(seq[Len(seq)], SortBy(SubSeq(seq, 1, Len(seq) - 1), by), by)

Reverse(seq) == [i \in 1..Len(seq) |-> seq[Len(seq) + 1 - i]]

Range(seq) == {seq[i] : i \in 1..Len(seq)}

(***************************************************************************)
(* AtelierMuscu: timelineData.                                             *)
(***************************************************************************)
\* `${log.date}::${log.session}`: the date holds no colon, so the pair
\* determines the text and the text the pair
KeyOf(log) == <<log.date, log.session>>

\* key.split('::')[1]: the text of the session up to its first "::"
RECURSIVE BeforeSeparator(_)
BeforeSeparator(str) ==
    IF str = <<>> THEN <<>>
    ELSE IF Len(str) >= 2 /\ str[1] = ":" /\ str[2] = ":" THEN <<>>
    ELSE <<Head(str)>> \o BeforeSeparator(Tail(str))

\* Object.entries(strengthGroups): keys in order of first insertion
RECURSIVE GroupKeys(_)
GroupKeys(logs) ==
    IF logs = <<>> THEN <<>>
    ELSE LET before == GroupKeys(SubSeq(logs, 1, Len(logs) - 1))
             k == KeyOf(logs[Len(logs)])
         IN  IF k \in Range(before) THEN before ELSE before \o <<k>>

\* a reduce that adds the weights instead of the tonnages
RECURSIVE SumWeights(_)
SumWeights(logs) ==
    IF logs = <<>> THEN 0 ELSE Head(logs).weight + SumWeights(Tail(logs))

RECURSIVE SumTonnage(_)
SumTonnage(logs) ==
    IF logs = <<>> THEN 0 ELSE Head(logs).tonnage + SumTonnage(Tail(logs))

DefaultColor == "#000000"

RoutineColor(rs, sessionName) ==
    IF \E i \in 1..Len(rs) : rs[i].name = sessionName
    THEN rs[CHOOSE i \in 1..Len(rs) :
                /\ rs[i].name = sessionName
                /\ \A j \in 1..(i - 1) : rs[j].name # sessionName].color
    ELSE DefaultColor

StrengthItem(key, logs, rs) ==
    LET InGroup(l) == KeyOf(l) = key
        members == SelectSeq(logs, InGroup)
        sessionName == BeforeSeparator(key[2])
    IN  [id |-> key,
         date |-> key[1],
         sessionName |-> sessionName,
         color |-> RoutineColor(rs, sessionName),
         tonnage |-> SumTonnage(members),
         exercisesCount |-> Cardinality({members[i].exercise : i \in 1..Len(members)}),
         logs |-> members]

NoExercise == <<"null">>

NoRoutine == "null"

SearchIgnored(query, analyzed) == FALSE

\* searchQuery.trim() && !analyzedExercise
SearchApplies(query, analyzed) == trim(query) # <<>> /\ analyzed = NoExercise

StrengthMatches(item, q) ==
    \/ includes(toLowerCase(item.sessionName), q)
    \/ \E i \in 1..Len(item.logs) : includes(toLowerCase(item.logs[i].exercise), q)

flatItems(logs, rs, query, analyzed) ==
    LET keys == GroupKeys(logs)
        groups == [i \in 1..Len(keys) |-> StrengthItem(keys[i], logs, rs)]
        items == SortBy(SubSeq(groups, 1, Len(groups)), "dateDesc")
        Match(item) == StrengthMatches(item, toLowerCase(query))
    IN  IF SearchApplies(query, analyzed) THEN SelectSeq(items, Match) ELSE items

(***************************************************************************)
(* AtelierMuscu: analyticsData, the progression of the analysed exercise.  *)
(***************************************************************************)
NoAnalytics == [chartData |-> <<"null">>, historyList |-> <<"null">>]

\* sessionMap.get(date) || 0
MapGet(sessionMap, date) ==
    IF \E i \in 1..Len(sessionMap) : sessionMap[i].date = date
    THEN sessionMap[CHOOSE i \in 1..Len(sessionMap) : sessionMap[i].date = date].weight
    ELSE 0

\* sessionMap.set(date, weight): a present key keeps its place
MapSet(sessionMap, date, weight) ==
    IF \E i \in 1..Len(sessionMap) : sessionMap[i].date = date
    THEN [i \in 1..Len(sessionMap) |->
             IF sessionMap[i].date = date THEN [date |-> date, weight |-> weight]
             ELSE sessionMap[i]]
    ELSE sessionMap \o << [date |-> date, weight |-> weight] >>

\* the daily max: a weight enters the map only when it exceeds currMax
RECURSIVE SessionMapOf(_)
SessionMapOf(logs) ==
    IF logs = <<>> THEN <<>>
    ELSE LET before == SessionMapOf(SubSeq(logs, 1, Len(logs) - 1))
             l == logs[Len(logs)]
             currMax == MapGet(before, l.date)
         IN  IF l.weight > currMax THEN MapSet(before, l.date, l.weight) ELSE before

\* a flag that never reports a decrease
TrendNeverDown(currentMax, prevMax) == IF currentMax > prevMax THEN "up" ELSE "flat"

Trend(currentMax, prevMax) ==
    IF currentMax < prevMax THEN "down"
    ELSE IF currentMax > prevMax THEN "up"
    ELSE "flat"

analyticsData(trainingLogs, analyzed) ==
    LET OfExercise(l) == l.exercise = analyzed
        logs == SortBy(SelectSeq(trainingLogs, OfExercise), "timeAsc")
        sessionMap == SessionMapOf(logs)
        arr == Reverse(sessionMap)
    IN  IF analyzed = NoExercise \/ logs = <<>> THEN NoAnalytics
        ELSE [chartData |->
                  [i \in 1..Len(sessionMap) |->
                      [dateStr |-> <<DayOf(LocalDay(sessionMap[i].date)),
                                     MonthOf(LocalDay(sessionMap[i].date))>>,
                       fullDate |-> sessionMap[i].date,
                       weight |-> sessionMap[i].weight]],
              historyList |->
                  [idx \in 1..Len(arr) |->
                      LET OfDate(l) == l.date = arr[idx].date
                          currentMax == MapGet(sessionMap, arr[idx].date)
                          prevMax == IF idx + 1 <= Len(arr)
                                     THEN MapGet(sessionMap, arr[idx + 1].date)
                                     ELSE currentMax
                      IN  [date |-> arr[idx].date,
                           logs |-> SortBy(SelectSeq(logs, OfDate), "setNum"),
                           maxWeight |-> currentMax,
                           trend |-> Trend(currentMax, prevMax)]]]

(***************************************************************************)
(* ActivityView: the colour of a card of the history.                      *)
(***************************************************************************)
\* cardioTypes.find(c => c.name === s.type)?.color || '#000000'
CardioColor(types, typeName) ==
    IF \E i \in 1..Len(types) : types[i].name = typeName
    THEN types[CHOOSE i \in 1..Len(types) :
                   /\ types[i].name = typeName
                   /\ \A j \in 1..(i - 1) : types[j].name # typeName].color
    ELSE DefaultColor

(***************************************************************************)
(* ActivityView: filteredHistory.                                          *)
(***************************************************************************)
CardioMatches(session, q) ==
    \/ includes(toLowerCase(session.type), q)
    \/ (session.notes # <<>> /\ includes(toLowerCase(session.notes), q))

filteredHistory(sessions, query) ==
    LET result == Reverse(sessions)
        Match(session) == CardioMatches(session, toLowerCase(query))
    IN  IF trim(query) # <<>> THEN SelectSeq(result, Match) ELSE result

(***************************************************************************)
(* NutritionView: activeNutrientsList, activeHistory.                      *)
(***************************************************************************)
activeNutrientsList(ns, columns) ==
    LET Shown(n) == n.id \in columns IN SelectSeq(ns, Shown)

\* log.totals[id] || 0
TotalOf(log, id) == IF id \in DOMAIN log.totals THEN log.totals[id] ELSE 0

activeHistory(logs, ns, columns) ==
    LET active == activeNutrientsList(ns, columns)
        HasValue(log) == \E i \in 1..Len(active) : TotalOf(log, active[i].id) > 0
    IN  IF columns = {} THEN <<>> ELSE SelectSeq(SortBy(logs, "timeDesc"), HasValue)

(***************************************************************************)
(* The list the mounted journal displays, and the ids it selects by.       *)
(***************************************************************************)
Journals == {"atelier", "endurance", "vitalite"}
Tabs == {"calendrier", "atelier", "endurance", "vitalite", "lab"}

VisibleItems ==
    CASE activeTab = "atelier" -> flatItems(training, routines, searchQuery, analyzedExercise)
      [] activeTab = "endurance" -> filteredHistory(activitySessions, searchQuery)
      [] activeTab = "vitalite" -> activeHistory(nutrition, nutrients, visibleColumns)
      [] OTHER -> <<>>

\* item.id (strength, cardio) or log.date (nutrition)
IdOf(item) == IF activeTab = "vitalite" THEN item.date ELSE item.id

IdsOf(items) == {IdOf(items[i]) : i \in 1..Len(items)}

AllItems ==
    CASE activeTab = "atelier" -> flatItems(training, routines, <<>>, NoExercise)
      [] activeTab = "endurance" -> filteredHistory(activitySessions, <<>>)
      [] activeTab = "vitalite" -> SortBy(nutrition, "timeDesc")
      [] OTHER -> <<>>

(***************************************************************************)
(* Smart selection: isGroupSelected and handleSmartSelect.                 *)
(***************************************************************************)
CurrentMonth == MonthLabel(today)

IsGroupSelectedNoEmptyCheck(itemsToCheck) ==
    \A i \in 1..Len(itemsToCheck) : IdOf(itemsToCheck[i]) \in selectedIds

IsGroupSelected(itemsToCheck) ==
    IF Len(itemsToCheck) = 0 THEN FALSE
    ELSE \A i \in 1..Len(itemsToCheck) : IdOf(itemsToCheck[i]) \in selectedIds

InMonth(item, value) == MonthLabelOf(item.date) = value

TargetItemsStrength(items, criteria, value) ==
    LET SameMonth(item) == InMonth(item, value)
        SameProgram(item) == item.sessionName = value
    IN  CASE criteria = "visible" -> items
          [] criteria = "month" -> SelectSeq(items, SameMonth)
          [] criteria = "program" -> SelectSeq(items, SameProgram)
          [] OTHER -> <<>>

TargetItemsCardio(items, criteria, value) ==
    LET SameMonth(item) == InMonth(item, value)
        SameType(item) == item.type = value
    IN  CASE criteria = "visible" -> items
          [] criteria = "month" -> SelectSeq(items, SameMonth)
          [] criteria = "type" -> SelectSeq(items, SameType)
          [] OTHER -> <<>>

TargetLogsNutrition(items, criteria, value) ==
    LET SameMonth(item) == InMonth(item, value)
    IN  CASE criteria = "all" -> items
          [] criteria = "month" -> SelectSeq(items, SameMonth)
          [] OTHER -> <<>>

TargetItemsOf(items, criteria, value) ==
    CASE activeTab = "atelier" -> TargetItemsStrength(items, criteria, value)
      [] activeTab = "endurance" -> TargetItemsCardio(items, criteria, value)
      [] activeTab = "vitalite" -> TargetLogsNutrition(items, criteria, value)
      [] OTHER -> <<>>

TargetItems(criteria, value) == TargetItemsOf(VisibleItems, criteria, value)

FirstFour(seq) == SubSeq(seq, 1, IF Len(seq) < 4 THEN Len(seq) ELSE 4)

\* the buttons of the smart-filter menu: <<criteria, value>>
OfferedCriteria ==
    CASE activeTab = "atelier" ->
            {<<"visible", <<>>>>, <<"month", CurrentMonth>>}
            \cup {<<"program", r.name>> : r \in Range(FirstFour(routines))}
      [] activeTab = "endurance" ->
            {<<"visible", <<>>>>, <<"month", CurrentMonth>>}
            \cup {<<"type", c.name>> : c \in Range(FirstFour(cardioTypes))}
      [] activeTab = "vitalite" ->
            {<<"all", <<>>>>, <<"month", CurrentMonth>>}
      [] OTHER -> {}

RECURSIVE DeleteEach(_, _)
DeleteEach(set, ids) ==
    IF ids = <<>> THEN set ELSE DeleteEach(set \ {Head(ids)}, Tail(ids))

RECURSIVE AddEach(_, _)
AddEach(set, ids) ==
    IF ids = <<>> THEN set ELSE AddEach(set \cup {Head(ids)}, Tail(ids))

SmartToggleClearingPartial(newSet, ids) ==
    IF \E i \in 1..Len(ids) : ids[i] \in newSet THEN DeleteEach(newSet, ids)
    ELSE AddEach(newSet, ids)

SmartToggleUnion(newSet, ids) == AddEach(newSet, ids)

SmartToggleReplace(newSet, ids) ==
    IF \A i \in 1..Len(ids) : ids[i] \in newSet THEN {} ELSE Range(ids)

\* handleSmartSelect, steps 2 and 3, on a non-empty target list
SmartToggle(newSet, ids) ==
    LET allSelected == \A i \in 1..Len(ids) : ids[i] \in newSet
    IN  IF allSelected THEN DeleteEach(newSet, ids) ELSE AddEach(newSet, ids)

\* shared and downloaded record what the export in progress, or the one that
\* has just returned, delivered; the next interaction observes afresh.
CallSettles ==
    /\ IF dlPc = "done"
       THEN /\ dlPc' = "idle"
            /\ csvContent' = NoFile
            /\ shared' = NoFile
       ELSE UNCHANGED <<dlPc, csvContent, shared>>
    /\ UNCHANGED args

DeliverySettles ==
    /\ downloaded' = NoFile
    /\ CallSettles

SmartOp(criteria, value) == [op |-> "smart", crit |-> criteria, value |-> value]

\* the previous smart selection; opening or closing the menu in between
\* changes neither the selection nor the list
MenuOp(last) == [op |-> "menu", crit |-> last.crit, value |-> last.value]

SameAsLast(criteria, value) ==
    /\ lastOp.op \in {"smart", "menu"}
    /\ lastOp.crit = criteria
    /\ lastOp.value = value

HandleSmartSelect(criteria, value) ==
    /\ activeTab \in Journals
    /\ isEditMode
    /\ showBulkMenu
    /\ <<criteria, value>> \in OfferedCriteria
    /\ LET targetItems == TargetItems(criteria, value)
           ids == [i \in 1..Len(targetItems) |-> IdOf(targetItems[i])]
       IN  IF Len(targetItems) = 0
           THEN UNCHANGED <<selectedIds, showBulkMenu>>
           ELSE /\ selectedIds' = SmartToggle(selectedIds, ids)
                /\ showBulkMenu' = FALSE
    /\ lastOp' = SmartOp(criteria, value)
    /\ IF criteria = "month"
       THEN IF SameAsLast(criteria, value) /\ streak = 1
            THEN streak' = 2 /\ preSel' = preSel
            ELSE streak' = 1 /\ preSel' = selectedIds
       ELSE streak' = 0 /\ preSel' = {}
    /\ DeliverySettles
    /\ UNCHANGED <<activeTab, storeVars, labVars, appVars, formVars, isEditMode, searchQuery, analyzedExercise,
                   visibleColumns, caller>>

(***************************************************************************)
(* Search, selection mode, card clicks.                                    *)
(***************************************************************************)
Queries == { <<>>, <<" ">>, <<"P">>, <<"s", "q">> }

UserStep ==
    /\ lastOp' = Op("other")
    /\ streak' = 0
    /\ preSel' = {}

\* onChange of the search field (both modes): setSearchQuery / setHistorySearch
SetSearchQuery(q) ==
    /\ activeTab \in {"atelier", "endurance"}
    /\ q # searchQuery
    /\ searchQuery' = q
    /\ UserStep
    /\ UNCHANGED <<activeTab, storeVars, labVars, appVars, formVars, isEditMode, selectedIds, showBulkMenu,
                   analyzedExercise, visibleColumns, caller>>
    /\ DeliverySettles

AsciiOrder == <<"\n", " ", "\"", "'", ",", "-", "0","1","2","3","4","5","6","7","8","9", ":",
                "A","B","C","D","E","F","G","H","I","J","K","L","M",
                "N","O","P","Q","R","S","T","U","V","W","X","Y","Z",
                "a","b","c","d","e","f","g","h","i","j","k","l","m",
                "n","o","p","q","r","s","t","u","v","w","x","y","z">>

CharCode(c) ==
    IF \E i \in 1..Len(AsciiOrder) : AsciiOrder[i] = c
    THEN CHOOSE i \in 1..Len(AsciiOrder) : AsciiOrder[i] = c
    ELSE 0

\* the default order of Array.prototype.sort: by code units
RECURSIVE CodeUnitLess(_, _)
CodeUnitLess(a, b) ==
    IF b = <<>> THEN FALSE
    ELSE IF a = <<>> THEN TRUE
    ELSE IF CharCode(Head(a)) # CharCode(Head(b)) THEN CharCode(Head(a)) < CharCode(Head(b))
    ELSE CodeUnitLess(Tail(a), Tail(b))

uniqueExercises == {training[i].exercise : i \in 1..Len(training)}

ExactMatches(query) ==
    {ex \in uniqueExercises : toLowerCase(ex) = toLowerCase(trim(query))}

\* uniqueExercises.find(...): the first match in sorted order
ExactMatch(query) ==
    CHOOSE ex \in ExactMatches(query) :
        \A other \in ExactMatches(query) : other = ex \/ CodeUnitLess(ex, other)

HandleSearchSubmit ==
    /\ activeTab = "atelier"
    /\ ~isEditMode
    /\ IF ExactMatches(searchQuery) # {}
       THEN /\ analyzedExercise' = ExactMatch(searchQuery)
            /\ searchQuery' = ExactMatch(searchQuery)
       ELSE /\ analyzedExercise' = NoExercise
            /\ UNCHANGED searchQuery
    /\ UserStep
    /\ UNCHANGED <<activeTab, storeVars, labVars, appVars, formVars, isEditMode, selectedIds, showBulkMenu,
                   visibleColumns, caller>>
    /\ DeliverySettles

ClearSearch ==
    /\ activeTab \in {"atelier", "endurance"}
    /\ ~isEditMode
    /\ searchQuery # <<>>
    /\ searchQuery' = <<>>
    /\ analyzedExercise' = NoExercise
    /\ UserStep
    /\ UNCHANGED <<activeTab, storeVars, labVars, appVars, formVars, isEditMode, selectedIds, showBulkMenu,
                   visibleColumns, caller>>
    /\ DeliverySettles

ToggleEditMode ==
    /\ activeTab \in Journals
    /\ IF isEditMode
       THEN /\ isEditMode' = FALSE
            /\ selectedIds' = {}
            /\ showBulkMenu' = FALSE
            /\ searchQuery' = <<>>
       ELSE /\ isEditMode' = TRUE
            /\ UNCHANGED <<selectedIds, showBulkMenu, searchQuery>>
    /\ UserStep
    /\ UNCHANGED <<activeTab, storeVars, labVars, appVars, formVars, analyzedExercise, visibleColumns, caller>>
    /\ DeliverySettles

toggleSessionSelection(newSet, id) ==
    IF id \in newSet THEN newSet \ {id} ELSE newSet \cup {id}

\* the ids of every card a journal can show
CardIds ==
    CASE activeTab = "atelier" -> {KeyOf(training[i]) : i \in 1..Len(training)}
      [] activeTab = "endurance" -> {activitySessions[i].id : i \in 1..Len(activitySessions)}
      [] activeTab = "vitalite" -> {nutrition[i].date : i \in 1..Len(nutrition)}
      [] OTHER -> {}

\* handleCardClick in selection mode (strength, cardio); toggleDateSelection
HandleCardClick(id) ==
    /\ activeTab \in Journals
    /\ isEditMode
    /\ id \in IdsOf(VisibleItems)
    /\ selectedIds' = toggleSessionSelection(selectedIds, id)
    /\ UserStep
    /\ UNCHANGED <<activeTab, storeVars, labVars, appVars, formVars, isEditMode, showBulkMenu, searchQuery,
                   analyzedExercise, visibleColumns, caller>>
    /\ DeliverySettles

ToggleBulkMenu ==
    /\ activeTab \in Journals
    /\ isEditMode
    /\ showBulkMenu' = ~showBulkMenu
    /\ lastOp' = IF lastOp.op \in {"smart", "menu"} THEN MenuOp(lastOp) ELSE Op("other")
    /\ UNCHANGED <<streak, preSel>>
    /\ UNCHANGED <<activeTab, storeVars, labVars, appVars, formVars, isEditMode, selectedIds, searchQuery,
                   analyzedExercise, visibleColumns, caller>>
    /\ DeliverySettles

NutrientIds == {nutrients[i].id : i \in 1..Len(nutrients)}

\* the column panel is part of the read-mode header
ToggleColumnVisibility(id) ==
    /\ activeTab = "vitalite"
    /\ ~isEditMode
    /\ id \in NutrientIds
    /\ visibleColumns' = IF id \in visibleColumns THEN visibleColumns \ {id}
                         ELSE visibleColumns \cup {id}
    /\ UserStep
    /\ UNCHANGED <<activeTab, storeVars, labVars, appVars, formVars, isEditMode, selectedIds, showBulkMenu,
                   searchQuery, analyzedExercise, caller>>
    /\ DeliverySettles

(***************************************************************************)
(* App: the eight stores and their keys of localStorage.  The text saved   *)
(* under a key is held as the pair of the word "json" and the value it     *)
(* reads back as; a key that was never written holds NoItem.               *)
(***************************************************************************)
TRAINING_CACHE_KEY == "athletica_training_history"
ROUTINES_CACHE_KEY == "athletica_user_routines"
NUTRITION_LOGS_KEY == "athletica_nutrition_history"
NUTRIENT_CONFIG_KEY == "athletica_nutrient_config"
ACTIVITY_SESSIONS_KEY == "athletica_activity_sessions"
CARDIO_TYPES_KEY == "athletica_cardio_types"
SLEEP_LOGS_KEY == "athletica_sleep_history"
AI_ANALYSIS_KEY == "athletica_ai_analysis"

StorageKeys ==
    {TRAINING_CACHE_KEY, ROUTINES_CACHE_KEY, NUTRITION_LOGS_KEY, NUTRIENT_CONFIG_KEY,
     ACTIVITY_SESSIONS_KEY, CARDIO_TYPES_KEY, SLEEP_LOGS_KEY, AI_ANALYSIS_KEY}

\* localStorage.getItem of a key that was never written: null
NoItem == <<>>

\* the value null of JavaScript
Null == <<>>

\* JSON.stringify writes null for a number that is NaN
JsonNumber(n) == IF n = NaN THEN JsonNull ELSE n

JsonSessions(sessions) ==
    [i \in 1..Len(sessions) |->
        [sessions[i] EXCEPT !.hr = JsonNumber(@), !.watts = JsonNumber(@)]]

JsonStringify(value) == <<"json", value>>

JsonParse(text) == text[2]

\* the auto-save effect: every key is written with the whole of its store
AutoSave(tr, ro, nu, nc, sl, ac, ct, ai, old) ==
    [key \in StorageKeys |->
        CASE key = TRAINING_CACHE_KEY -> JsonStringify(tr)
          [] key = ROUTINES_CACHE_KEY -> JsonStringify(ro)
          [] key = NUTRITION_LOGS_KEY -> JsonStringify(nu)
          [] key = NUTRIENT_CONFIG_KEY -> JsonStringify(nc)
          [] key = ACTIVITY_SESSIONS_KEY -> JsonStringify(JsonSessions(ac))
          [] key = CARDIO_TYPES_KEY -> JsonStringify(ct)
          [] key = SLEEP_LOGS_KEY -> JsonStringify(sl)
          [] key = AI_ANALYSIS_KEY -> JsonStringify(ai)]

\* the effect runs after the render that follows a change of a store
Persist ==
    storage' = AutoSave(training', routines', nutrition', nutrients', sleep',
                        activitySessions', cardioTypes', aiData', storage)

\* the state after the first render: the effect has run once
StoredInit ==
    storage = AutoSave(training, routines, nutrition, nutrients, sleep,
                       activitySessions, cardioTypes, aiData, [key \in StorageKeys |-> NoItem])

\* useState(() => { const cached = getItem(KEY); return cached ? JSON.parse(cached) : def })
Load(store, key, def) ==
    IF store[key] # NoItem THEN JsonParse(store[key]) ELSE def

(***************************************************************************)
(* geminiService: the two calls of the text-generation service.  outcome   *)
(* is what the service does with the call.                                 *)
(***************************************************************************)
AnalysisOutcomes == {"rejected", "empty", "unparsable", "nullGrounded", "null", "report"}

ChatOutcomes == {"rejected", "empty", "text"}

AnalysisError == <<[isError |-> TRUE, trend |-> "none"]>>

Report(trend) == <<[isError |-> FALSE, trend |-> trend]>>

Returned(value) == [thrown |-> FALSE, value |-> value]

Thrown == [thrown |-> TRUE, value |-> Null]

\* the body of the try of analyzeAthletePerformance: the call rejects, the
\* text is empty, JSON.parse throws, the text null comes with grounding chunks
\* (result.groundingUrls of null throws), or a value is returned
GenerateContent(outcome) ==
    CASE outcome = "rejected" -> Thrown
      [] outcome = "empty" -> Thrown
      [] outcome = "unparsable" -> Thrown
      [] outcome = "nullGrounded" -> Thrown
      [] outcome = "null" -> Returned(Null)
      [] outcome = "report" -> Returned(Report("UP"))

\* the function without its catch
AnalyzeUncaught(outcome) == GenerateContent(outcome)

analyzeAthletePerformance(outcome) ==
    IF GenerateContent(outcome).thrown THEN Returned(AnalysisError)
    ELSE GenerateContent(outcome)

NoAnswerText == "Desole, je n'ai pas pu generer de reponse."
ConnectionErrorText == "Erreur de connexion avec le cerveau du coach."
AnswerText == "answer"

\* the body of the try of sendChatMessage: result.text || "Desole..."
SendMessage(outcome) ==
    CASE outcome = "rejected" -> Thrown
      [] outcome = "empty" -> Returned(NoAnswerText)
      [] outcome = "text" -> Returned(AnswerText)

sendChatMessage(outcome) ==
    IF SendMessage(outcome).thrown THEN Returned(ConnectionErrorText)
    ELSE SendMessage(outcome)

(***************************************************************************)
(* AnalysisView and the analysis state of App.                             *)
(***************************************************************************)
MaxRequests == 2
MaxMessages == 3

ChatMessage(role, text) == [role |-> role, text |-> text]

Greeting == << ChatMessage("model", "Salut") >>

\* the mount effect that looks at the result alone
MountTriggersOnEmpty(aiAnalysis, loading) == aiAnalysis = Null

\* useEffect(() => { if (!aiAnalysis && !loading) onRefresh() }, [])
MountTriggers(aiAnalysis, loading) == aiAnalysis = Null /\ ~loading

\* handleRunAnalysis up to its await
RunAnalysisStarts ==
    /\ requests < MaxRequests
    /\ aiLoading' = TRUE
    /\ requests' = requests + 1

LabMounts ==
    /\ subTab' = "dashboard"
    /\ messages' = Greeting
    /\ isChatLoading' = FALSE
    /\ chatPending' = 0

LabInit ==
    /\ aiLoading = FALSE
    /\ requests = 0
    /\ subTab = "dashboard"
    /\ messages = Greeting
    /\ isChatLoading = FALSE
    /\ chatPending = 0

\* App: the view of the old tab is unmounted, the new one mounts with its
\* initial state; NutritionView's effect then shows every nutrient column.
\* A handler still awaiting its share belongs to the unmounted view.
SetActiveTab(tab) ==
    /\ tab \in Tabs
    /\ tab # activeTab
    /\ activeTab' = tab
    /\ isEditMode' = FALSE
    /\ selectedIds' = {}
    /\ showBulkMenu' = FALSE
    /\ searchQuery' = <<>>
    /\ analyzedExercise' = NoExercise
    /\ visibleColumns' = IF tab = "vitalite" THEN NutrientIds ELSE {}
    /\ caller' = IF dlPc = "sharing" /\ caller # "none" THEN "unmounted" ELSE caller
    /\ UserStep
    /\ DeliverySettles
    /\ order' = 1
    /\ editingRoutineId' = NoRoutine
    /\ confirmDelete' = FALSE
    /\ LabMounts
    /\ IF tab = "lab" /\ MountTriggers(aiData, aiLoading)
       THEN RunAnalysisStarts
       ELSE UNCHANGED <<aiLoading, requests>>
    /\ UNCHANGED <<storeVars, appVars, aiData>>

(***************************************************************************)
(* Initial state of a journal component (useState initial values).         *)
(***************************************************************************)
FormInit ==
    /\ order = 1
    /\ editingRoutineId = NoRoutine
    /\ confirmDelete = FALSE

ViewInit ==
    /\ isEditMode = FALSE
    /\ selectedIds = {}
    /\ showBulkMenu = FALSE
    /\ searchQuery = <<>>
    /\ analyzedExercise = NoExercise
    /\ visibleColumns = {}

HistoryInit ==
    /\ lastOp = NoOp
    /\ preSel = {}
    /\ streak = 0

DeliveryInit ==
    /\ csvContent = NoFile
    /\ dlPc = "idle"
    /\ caller = "none"
    /\ shared = NoFile
    /\ downloaded = NoFile

(***************************************************************************)
(* Continuation of the handler that awaits downloadCSV (handleExport,      *)
(* after the await): leaves selection mode, in the view that made the call *)
(* if it is still mounted.                                                 *)
(***************************************************************************)
\* a continuation that leaves selection mode and keeps the selection
ExportDoneKeepingSelection(who) ==
    IF who \in {"atelier", "endurance"}
    THEN /\ isEditMode' = FALSE
         /\ UNCHANGED <<selectedIds, showBulkMenu, searchQuery, analyzedExercise, visibleColumns>>
    ELSE UNCHANGED viewVars

ExportDone(who) ==
    IF who \in {"atelier", "endurance"}
    THEN /\ isEditMode' = FALSE
         /\ selectedIds' = {}
         /\ UNCHANGED <<showBulkMenu, searchQuery, analyzedExercise, visibleColumns>>
    ELSE UNCHANGED viewVars

\* downloadCSV from its call to its first await or its return.  A share
\* requested while another is pending is rejected at once by the platform.
StartDelivery(content, who) ==
    IF ShareAttempted(canShare) /\ dlPc # "sharing"
    THEN /\ csvContent' = content
         /\ shared' = FileOf(content)
         /\ downloaded' = NoFile
         /\ dlPc' = "sharing"
         /\ caller' = who
         /\ UNCHANGED viewVars
    ELSE IF ShareAttempted(canShare)
    THEN /\ downloaded' = IF FallbackNeeded(canShare, "rejected") THEN content ELSE downloaded
         /\ UNCHANGED <<csvContent, shared, dlPc, caller>>
         /\ ExportDone(who)
    ELSE /\ csvContent' = content
         /\ shared' = NoFile
         /\ downloaded' = IF FallbackNeeded(canShare, "none") THEN content ELSE NoFile
         /\ dlPc' = "done"
         /\ caller' = "none"
         /\ ExportDone(who)

\* downloadCSV called directly with the drawn arguments
DownloadCSV ==
    /\ dlPc = "idle"
    /\ args # NoArgs
    /\ StartDelivery(Serialize(args.headers, args.rows), "none")
    /\ lastOp' = Op("downloadCSV")
    /\ UNCHANGED <<activeTab, storeVars, labVars, appVars, formVars, args, preSel, streak>>

(***************************************************************************)
(* AtelierMuscu and ActivityView: handleExport.                            *)
(***************************************************************************)
RECURSIVE Flatten(_)
Flatten(seqs) == IF seqs = <<>> THEN <<>> ELSE Head(seqs) \o Flatten(Tail(seqs))

StrengthHeaders == << <<"Date">>, <<"Programme">>, <<"Exercice">>, <<"Ordre">>, <<"Serie">>,
                      <<"Poids (kg)">>, <<"Reps">>, <<"Tonnage (kg)">> >>

StrengthRow(log) ==
    << StrCell(DateStr(log.date)), StrCell(log.session), StrCell(log.exercise),
       NumCell(log.order), NumCell(log.setNum), NumCell(log.weight), NumCell(log.reps),
       NumCell(log.tonnage) >>

\* an export of every selected session, shown or not
StrengthExportOfAll(items, selected) ==
    LET Chosen(item) == item.id \in selected
        all == flatItems(training, routines, <<>>, NoExercise)
        itemsToExport == IF selected # {} THEN SelectSeq(all, Chosen) ELSE <<>>
        rawDataToExport == Flatten([i \in 1..Len(itemsToExport) |-> itemsToExport[i].logs])
        sorted == SortBy(rawDataToExport, "exportOrder")
    IN  [i \in 1..Len(sorted) |-> StrengthRow(sorted[i])]

StrengthExportRows(items, selected) ==
    LET Chosen(item) == item.id \in selected
        itemsToExport == IF selected # {} THEN SelectSeq(items, Chosen) ELSE <<>>
        rawDataToExport == Flatten([i \in 1..Len(itemsToExport) |-> itemsToExport[i].logs])
        sorted == SortBy(rawDataToExport, "exportOrder")
    IN  [i \in 1..Len(sorted) |-> StrengthRow(sorted[i])]

CardioHeaders == << <<"Date">>, <<"Type Sport">>, <<"Mode">>, <<"Distance (km)">>,
                    <<"Duree (min)">>, <<"Allure">>, <<"FC Moy">>, <<"Puissance (w)">>,
                    <<"RPE">>, <<"Notes">> >>

\* Math.floor(duration / distance), Math.round of the remainder in seconds
Pace(session) ==
    IF session.distance > 0 /\ session.duration > 0
    THEN LET paceMin == session.duration \div session.distance
             paceSec == (2 * 60 * (session.duration % session.distance) + session.distance)
                        \div (2 * session.distance)
         IN  NatToStr(paceMin) \o <<"'">> \o Pad2(paceSec) \o <<Quote>>
    ELSE <<"-">>

\* value || ''
OrEmpty(n) == IF Falsy(n) THEN StrCell(<<>>) ELSE NumCell(n)

CardioRow(session) ==
    << StrCell(DateStr(session.date)), StrCell(session.type),
       StrCell(IF session.mode = <<>> THEN <<"continuous">> ELSE session.mode),
       NumCell(session.distance), NumCell(session.duration), StrCell(Pace(session)),
       OrEmpty(session.hr), OrEmpty(session.watts), NumCell(session.rpe),
       StrCell(session.notes) >>

CardioExportRows(items, selected) ==
    LET Chosen(session) == session.id \in selected
        rawDataToExport == IF selected # {} THEN SelectSeq(items, Chosen) ELSE <<>>
        sortedExport == SortBy(rawDataToExport, "timeDesc")
    IN  [i \in 1..Len(sortedExport) |-> CardioRow(sortedExport[i])]

HandleExport ==
    /\ activeTab \in {"atelier", "endurance"}
    /\ isEditMode
    /\ selectedIds # {}
    /\ LET headers == IF activeTab = "atelier" THEN StrengthHeaders ELSE CardioHeaders
           rows == IF activeTab = "atelier"
                   THEN StrengthExportRows(VisibleItems, selectedIds)
                   ELSE CardioExportRows(VisibleItems, selectedIds)
       IN  IF rows = <<>>
           THEN DeliverySettles /\ UNCHANGED <<viewVars, caller>>
           ELSE StartDelivery(Serialize(headers, rows), activeTab)
    /\ lastOp' = Op("export")
    /\ streak' = 0
    /\ preSel' = {}
    /\ UNCHANGED <<activeTab, storeVars, labVars, appVars, formVars, args>>

(***************************************************************************)
(* NutritionView: handleExportCSV.  The file is the body of a data: URL:   *)
(* encodeURI escapes it and the download unescapes it, up to a "#".        *)
(***************************************************************************)
DataUrlPrefix == "data:text/csv;charset=utf-8,"

EncodeUriChar(c) ==
    CASE c = " " -> <<"%", "2", "0">>
      [] c = Newline -> <<"%", "0", "A">>
      [] c = Quote -> <<"%", "2", "2">>
      [] c = "%" -> <<"%", "2", "5">>
      [] OTHER -> <<c>>

encodeURI(text) == Flatten([i \in 1..Len(text) |-> EncodeUriChar(text[i])])

RECURSIVE PercentDecode(_)
PercentDecode(text) ==
    IF text = <<>> THEN <<>>
    ELSE IF Head(text) = "#" THEN <<>>
    ELSE IF Head(text) = "%" /\ Len(text) >= 3
         THEN (CASE SubSeq(text, 2, 3) = <<"2", "0">> -> <<" ">>
                 [] SubSeq(text, 2, 3) = <<"0", "A">> -> <<Newline>>
                 [] SubSeq(text, 2, 3) = <<"2", "2">> -> <<Quote>>
                 [] SubSeq(text, 2, 3) = <<"2", "5">> -> <<"%">>
                 [] OTHER -> SubSeq(text, 1, 3))
              \o PercentDecode(SubSeq(text, 4, Len(text)))
    ELSE <<Head(text)>> \o PercentDecode(Tail(text))

\* the file the browser saves for <a href="data:...," download>
DataUrlBody(uri) == PercentDecode(Tail(uri))

NutritionHeaders(active) ==
    << <<"Date">> >>
    \o [i \in 1..Len(active) |-> active[i].name \o <<" ", "(">> \o active[i].unit \o <<")">>]

NutritionRow(log, active) ==
    join(<<DateStr(log.date)>> \o [i \in 1..Len(active) |-> NatToStr(TotalOf(log, active[i].id))],
         <<Comma>>)

NutritionCsv(logs, active, selected) ==
    LET Chosen(log) == log.date \in selected
        chosen == SelectSeq(logs, Chosen)
    IN  join(<<join(NutritionHeaders(active), <<Comma>>)>>
             \o [i \in 1..Len(chosen) |-> NutritionRow(chosen[i], active)],
             <<Newline>>)

HandleExportCSV ==
    /\ activeTab = "vitalite"
    /\ isEditMode
    /\ selectedIds # {}
    /\ LET csv == NutritionCsv(VisibleItems, activeNutrientsList(nutrients, visibleColumns),
                               selectedIds)
       IN  downloaded' = DataUrlBody(encodeURI(<<DataUrlPrefix>> \o csv))
    /\ isEditMode' = FALSE
    /\ selectedIds' = {}
    /\ lastOp' = Op("export")
    /\ streak' = 0
    /\ preSel' = {}
    /\ CallSettles
    /\ UNCHANGED <<activeTab, storeVars, labVars, appVars, formVars, showBulkMenu, searchQuery, analyzedExercise,
                   visibleColumns, caller>>

\* navigator.share resolves: downloadCSV returns (line 29)
ShareResolve ==
    /\ dlPc = "sharing"
    /\ dlPc' = "done"
    /\ downloaded' = IF FallbackNeeded(canShare, "resolved") THEN csvContent ELSE downloaded
    /\ ExportDone(caller)
    /\ caller' = "none"
    /\ lastOp' = Op("shareResolve")
    /\ streak' = 0
    /\ preSel' = {}
    /\ UNCHANGED <<activeTab, storeVars, labVars, appVars, formVars, args, csvContent, shared>>

\* navigator.share rejects: caught, falls through to the download (lines 30-43)
ShareReject ==
    /\ dlPc = "sharing"
    /\ dlPc' = "done"
    /\ downloaded' = IF FallbackNeeded(canShare, "rejected") THEN csvContent ELSE downloaded
    /\ ExportDone(caller)
    /\ caller' = "none"
    /\ lastOp' = Op("shareReject")
    /\ streak' = 0
    /\ preSel' = {}
    /\ UNCHANGED <<activeTab, storeVars, labVars, appVars, formVars, args, csvContent, shared>>

InitCsv ==
    /\ activeTab = "atelier"
    /\ training = <<>>
    /\ routines = <<>>
    /\ activitySessions = <<>>
    /\ cardioTypes = <<>>
    /\ nutrition = <<>>
    /\ nutrients = <<>>
    /\ canShare \in BOOLEAN
    /\ sleep = <<>>
    /\ today = Today
    /\ timeZoneWest = FALSE
    /\ FormInit
    /\ ViewInit
    /\ HistoryInit
    /\ DeliveryInit
    /\ args \in {[headers |-> h, rows |-> t] : h \in HeaderChoices, t \in Tables}
    /\ aiData = Report("FLAT")
    /\ LabInit
    /\ StoredInit

NextCsv == DownloadCSV \/ ShareResolve \/ ShareReject

SpecCsv == InitCsv /\ [][NextCsv]_vars

(***************************************************************************)
(* The journals: stores as localStorage may hold them, and the operations  *)
(* of the three journal views.                                             *)
(***************************************************************************)
Log(date, session, exercise, exerciseOrder, setNum, weight, reps) ==
    [date |-> date, session |-> session, exercise |-> exercise, order |-> exerciseOrder,
     setNum |-> setNum, weight |-> weight, reps |-> reps, tonnage |-> weight * reps]

Routine(id, name, color) == [id |-> id, name |-> name, color |-> color]

CardioType(id, name, color) == [id |-> id, name |-> name, color |-> color]

Cardio(id, date, type, distance, duration, hr, notes) ==
    [id |-> id, date |-> date, type |-> type, mode |-> <<>>, distance |-> distance,
     duration |-> duration, hr |-> hr, watts |-> 0, rpe |-> 5, notes |-> notes]

DailyLog(date, totals) == [date |-> date, totals |-> totals]

Nutrient(id, name, unit) == [id |-> id, name |-> name, unit |-> unit]

StoreFull ==
    [training |-> << Log(MkDate(2024, 3, 10), <<"P", "a">>, <<"S", "q">>, 1, 1, 100, 5),
                     Log(MkDate(2024, 2, 20), <<"b">>, <<"S", "q">>, 1, 1, 90, 5),
                     Log(MkDate(2024, 3, 12), <<"b">>, <<"D", "l">>, 1, 1, 120, 3),
                     Log(MkDate(2024, 3, 10), <<"P", "a">>, <<"D", "l">>, 2, 1, 110, 3) >>,
     routines |-> << Routine("r1", <<"P", "a">>, "#112233"), Routine("r2", <<"b">>, "#445566") >>,
     activitySessions |-> << Cardio("c1", MkDate(2024, 2, 20), <<"R", "o">>, 0, 30, 0, <<"s", "q">>),
                             Cardio("c2", MkDate(2024, 3, 10), <<"S", "p">>, 5, 27, 150, <<"a", Comma>>) >>,
     cardioTypes |-> << CardioType("t1", <<"S", "p">>, "#778899"),
                        CardioType("t2", <<"R", "o">>, "#aabbcc") >>,
     nutrition |-> << DailyLog(MkDate(2024, 3, 10), [prot |-> 30, carb |-> 0]),
                      DailyLog(MkDate(2024, 2, 20), [carb |-> 50]),
                      DailyLog(MkDate(2024, 3, 12), [prot |-> 20]) >>,
     nutrients |-> << Nutrient("prot", <<"P">>, <<"g">>), Nutrient("carb", <<"C", " ", "#">>, <<"g">>) >>]

\* mockData: the clean slate
StoreEmpty ==
    [training |-> <<>>, routines |-> <<>>, activitySessions |-> <<>>, cardioTypes |-> <<>>,
     nutrition |-> <<>>, nutrients |-> <<>>]

Stores == {StoreFull, StoreEmpty}

InitSel ==
    /\ activeTab = "atelier"
    /\ \E store \in Stores :
          /\ training = store.training
          /\ routines = store.routines
          /\ activitySessions = store.activitySessions
          /\ cardioTypes = store.cardioTypes
          /\ nutrition = store.nutrition
          /\ nutrients = store.nutrients
    /\ canShare \in BOOLEAN
    /\ sleep = <<>>
    /\ today = Today
    /\ timeZoneWest = FALSE
    /\ FormInit
    /\ ViewInit
    /\ HistoryInit
    /\ DeliveryInit
    /\ args = NoArgs
    /\ aiData = Report("FLAT")
    /\ LabInit
    /\ StoredInit

NextSel ==
    \/ \E tab \in Tabs : SetActiveTab(tab)
    \/ \E q \in Queries : SetSearchQuery(q)
    \/ HandleSearchSubmit
    \/ ClearSearch
    \/ ToggleEditMode
    \/ \E id \in CardIds : HandleCardClick(id)
    \/ ToggleBulkMenu
    \/ \E id \in NutrientIds : ToggleColumnVisibility(id)
    \/ \E c \in OfferedCriteria : HandleSmartSelect(c[1], c[2])
    \/ HandleExport
    \/ HandleExportCSV
    \/ ShareResolve
    \/ ShareReject

SpecSel == InitSel /\ [][NextSel]_vars

(***************************************************************************)
(* Exports of journals whose records are stored in any order (SpecOrder).  *)
(***************************************************************************)
Perms(set) ==
    {f \in [1..Cardinality(set) -> set] : \A i, j \in 1..Cardinality(set) : f[i] = f[j] => i = j}

OrderLogs ==
    { Log(MkDate(2024, 3, 10), <<"b">>, <<"S", "q">>, 1, 1, 100, 5),
      Log(MkDate(2024, 3, 10), <<"b">>, <<"S", "q">>, 1, 2, 100, 4),
      Log(MkDate(2024, 3, 10), <<"b">>, <<"D", "l">>, 2, 1, 120, 3),
      Log(MkDate(2024, 3, 10), <<"P", "a">>, <<"S", "q">>, 1, 1, 90, 5),
      Log(MkDate(2024, 3, 12), <<"b">>, <<"S", "q">>, 1, 1, 105, 5) }

\* sessions without a distance: their pace cell is "-"
OrderSessions ==
    { Cardio("c1", MkDate(2024, 3, 10), <<"R", "o">>, 0, 9, 0, <<>>),
      Cardio("c2", MkDate(2024, 3, 10), <<"S", "p">>, 0, 27, 150, <<>>),
      Cardio("c3", MkDate(2024, 3, 12), <<"S", "p">>, 0, 20, 0, <<>>) }

InitOrder ==
    /\ activeTab = "atelier"
    /\ \/ training \in Perms(OrderLogs) /\ activitySessions = <<>>
       \/ training = <<>> /\ activitySessions \in Perms(OrderSessions)
    /\ routines = StoreFull.routines
    /\ cardioTypes = StoreFull.cardioTypes
    /\ nutrition = <<>>
    /\ nutrients = <<>>
    /\ canShare = FALSE
    /\ sleep = <<>>
    /\ today = Today
    /\ timeZoneWest = FALSE
    /\ FormInit
    /\ ViewInit
    /\ HistoryInit
    /\ DeliveryInit
    /\ args = NoArgs
    /\ aiData = Report("FLAT")
    /\ LabInit
    /\ StoredInit

NextOrder ==
    \/ \E tab \in {"atelier", "endurance"} : SetActiveTab(tab)
    \/ ToggleEditMode
    \/ \E id \in CardIds : HandleCardClick(id)
    \/ HandleExport

SpecOrder == InitOrder /\ [][NextOrder]_vars

(***************************************************************************)
(* AtelierMuscu: timelineData.grouped, the month buckets of the timeline.  *)
(***************************************************************************)
\* Object.keys(grouped): month labels in order of first insertion
RECURSIVE MonthKeys(_)
MonthKeys(items) ==
    IF items = <<>> THEN <<>>
    ELSE LET before == MonthKeys(SubSeq(items, 1, Len(items) - 1))
             monthKey == MonthLabelOf(items[Len(items)].date)
         IN  IF monthKey \in Range(before) THEN before ELSE before \o <<monthKey>>

grouped(items) ==
    LET monthKeys == MonthKeys(items)
    IN  [i \in 1..Len(monthKeys) |->
            LET InBucket(item) == MonthLabelOf(item.date) = monthKeys[i]
            IN  [monthKey |-> monthKeys[i], items |-> SelectSeq(items, InBucket)]]

(***************************************************************************)
(* AtelierMuscu: handleSaveSession, and App: handleAddTraining,            *)
(* handleDeleteTrainingSession.  Weights and repetitions are whole         *)
(* numbers, for which the arithmetic of the code is exact.                 *)
(***************************************************************************)
MaxLogs == 3

\* the form's exercise order stops one save after the store could be filled
MaxOrder == MaxLogs + 2

\* the day the journal is opened, the last day of a month, and the next day
StartDay == MkDate(2024, 2, 29)
LastDay == NextDay(StartDay)

SetData(weight, reps) == [weight |-> weight, reps |-> reps]

\* the rows of the form: an unfilled first set, a set without repetitions
SetsDataChoices ==
    { << SetData(0, 0), SetData(55, 3) >>,
      << SetData(60, 0), SetData(0, 8) >> }

ExerciseChoices == { <<"S", "q">>, <<"D", "l">> }

RECURSIVE NewLogs(_, _, _, _, _, _)
NewLogs(date, session, exercise, exerciseOrder, setsData, i) ==
    IF i > Len(setsData) THEN <<>>
    ELSE (IF setsData[i].weight > 0 \/ setsData[i].reps > 0
          THEN << [date |-> date, session |-> session, exercise |-> exercise,
                   order |-> exerciseOrder, weight |-> setsData[i].weight,
                   reps |-> setsData[i].reps, setNum |-> i,
                   tonnage |-> setsData[i].weight * setsData[i].reps] >>
          ELSE <<>>)
         \o NewLogs(date, session, exercise, exerciseOrder, setsData, i + 1)

\* setTraining(prev => [...prev, ...logs])
handleAddTraining(prev, logs) == prev \o logs

HandleSaveSession(selectedRoutine, selectedExercise, setsData) ==
    /\ activeTab = "atelier"
    /\ order < MaxOrder
    /\ LET logs == NewLogs(today, selectedRoutine.name, selectedExercise, order, setsData, 1)
       IN  /\ logs # <<>>
           /\ Len(training) + Len(logs) <= MaxLogs
           /\ training' = handleAddTraining(training, logs)
           /\ order' = order + 1
    /\ lastOp' = Op("save")
    /\ streak' = 0
    /\ preSel' = {}
    /\ DeliverySettles
    /\ UNCHANGED <<activeTab, routines, activitySessions, cardioTypes, nutrition, nutrients,
                   canShare, labVars, appVars, editingRoutineId, confirmDelete, viewVars, caller>>
    /\ Persist

\* a filter on the date alone
KeepOtherDates(prev, date, sessionName) ==
    LET Kept(log) == log.date # date
    IN  SelectSeq(prev, Kept)

KeepTraining(prev, date, sessionName) ==
    LET Kept(log) == ~(log.date = date /\ log.session = sessionName)
    IN  SelectSeq(prev, Kept)

\* the button of a card of the timeline; confirmed is the answer to window.confirm
HandleDeleteTrainingSession(item, confirmed) ==
    /\ activeTab = "atelier"
    /\ training' = IF confirmed THEN KeepTraining(training, item.date, item.sessionName)
                   ELSE training
    /\ lastOp' = [op |-> IF confirmed THEN "deleteSession" ELSE "declined",
                  crit |-> "", value |-> <<item.date, item.sessionName>>]
    /\ streak' = 0
    /\ preSel' = {}
    /\ DeliverySettles
    /\ UNCHANGED <<activeTab, routines, activitySessions, cardioTypes, nutrition, nutrients,
                   canShare, labVars, appVars, formVars, viewVars, caller>>
    /\ Persist

\* midnight passes
Tick ==
    /\ today # LastDay
    /\ today' = NextDay(today)
    /\ lastOp' = Op("tick")
    /\ UNCHANGED <<activeTab, storeVars, labVars, sleep, timeZoneWest, formVars, viewVars, csvVars,
                   preSel, streak>>

InitTrain ==
    /\ activeTab = "atelier"
    /\ training = <<>>
    /\ routines = StoreFull.routines
    /\ activitySessions = <<>>
    /\ cardioTypes = <<>>
    /\ nutrition = <<>>
    /\ nutrients = <<>>
    /\ canShare = FALSE
    /\ sleep = <<>>
    /\ today = StartDay
    /\ timeZoneWest \in BOOLEAN
    /\ FormInit
    /\ ViewInit
    /\ HistoryInit
    /\ DeliveryInit
    /\ args = NoArgs
    /\ aiData = Report("FLAT")
    /\ LabInit
    /\ StoredInit

NextTrain ==
    \/ \E r \in Range(routines), e \in ExerciseChoices, sets \in SetsDataChoices :
           HandleSaveSession(r, e, sets)
    \/ \E item \in Range(VisibleItems), confirmed \in BOOLEAN :
           HandleDeleteTrainingSession(item, confirmed)
    \/ Tick

SpecTrain == InitTrain /\ [][NextTrain]_vars

(***************************************************************************)
(* The strength journal opened on a store read back from localStorage that *)
(* holds entries of an older format of dates, DD/MM/YYYY (SpecLegacy).     *)
(***************************************************************************)
LegacyStores ==
    { << Log(MkDate(2024, 3, 5), <<"P", "a">>, <<"S", "q">>, 1, 1, 100, 5),
         Log(SlashDate(5, 3, 2024), <<"P", "a">>, <<"D", "l">>, 2, 1, 120, 3) >>,
      << Log(SlashDate(25, 3, 2024), <<"b">>, <<"S", "q">>, 1, 1, 90, 5),
         Log(MkDate(2024, 3, 25), <<"b">>, <<"D", "l">>, 2, 1, 110, 3) >> }

InitLegacy ==
    /\ activeTab = "atelier"
    /\ training \in LegacyStores
    /\ routines = StoreFull.routines
    /\ activitySessions = <<>>
    /\ cardioTypes = <<>>
    /\ nutrition = <<>>
    /\ nutrients = <<>>
    /\ canShare = FALSE
    /\ sleep = <<>>
    /\ today = StartDay
    /\ timeZoneWest \in BOOLEAN
    /\ FormInit
    /\ ViewInit
    /\ HistoryInit
    /\ DeliveryInit
    /\ args = NoArgs
    /\ aiData = Report("FLAT")
    /\ LabInit
    /\ StoredInit

SpecLegacy == InitLegacy /\ [][NextTrain]_vars

(***************************************************************************)
(* The progression of an exercise logged on four days (SpecAnalysis): the  *)
(* weight of the first set of each day is drawn, a second set and another  *)
(* exercise are logged on the second day, in two orders of storage.        *)
(***************************************************************************)
AnalysisDays == << MkDate(2024, 3, 1), MkDate(2024, 3, 3), MkDate(2024, 3, 5), MkDate(2024, 3, 8) >>

\* 0 is a set without load (weight 0, repetitions > 0)
Weights == {0, 50, 52, 55}

AnalysisLogs(w) ==
    << Log(AnalysisDays[1], <<"b">>, <<"S", "q">>, 1, 1, w[1], 5),
       Log(AnalysisDays[2], <<"b">>, <<"S", "q">>, 1, 1, w[2], 5),
       Log(AnalysisDays[2], <<"b">>, <<"S", "q">>, 1, 2, 50, 5),
       Log(AnalysisDays[2], <<"b">>, <<"D", "l">>, 2, 1, 200, 1),
       Log(AnalysisDays[3], <<"P", "a">>, <<"S", "q">>, 1, 1, w[3], 5),
       Log(AnalysisDays[4], <<"b">>, <<"S", "q">>, 1, 1, w[4], 5) >>

StorageOrders == { <<1, 2, 3, 4, 5, 6>>, <<5, 3, 1, 6, 4, 2>> }

InitAnalysis ==
    /\ activeTab = "atelier"
    /\ \E w \in [1..Len(AnalysisDays) -> Weights], o \in StorageOrders :
           training = [i \in 1..Len(o) |-> AnalysisLogs(w)[o[i]]]
    /\ routines = StoreFull.routines
    /\ activitySessions = <<>>
    /\ cardioTypes = <<>>
    /\ nutrition = <<>>
    /\ nutrients = <<>>
    /\ canShare = FALSE
    /\ sleep = <<>>
    /\ today = Today
    /\ timeZoneWest = FALSE
    /\ FormInit
    /\ ViewInit
    /\ HistoryInit
    /\ DeliveryInit
    /\ args = NoArgs
    /\ aiData = Report("FLAT")
    /\ LabInit
    /\ StoredInit

NextAnalysis ==
    \/ \E q \in Queries : SetSearchQuery(q)
    \/ HandleSearchSubmit
    \/ ClearSearch

SpecAnalysis == InitAnalysis /\ [][NextAnalysis]_vars

(***************************************************************************)
(* App: handleUpdateHealth and handleDeleteNutritionLog.  An optional      *)
(* argument is a sequence of at most one element: <<>> is undefined.       *)
(***************************************************************************)
MaxTotal == 30
MaxSleep == 3

SleepLog(date, score) == [date |-> date, score |-> score, hours |-> 8]

NutritionEntry(nutrientId, value) == [nutrientId |-> nutrientId, value |-> value]

\* prev.find(n => n.date === today) || { date: today, totals: {} }
ExistingLog(prev, date) ==
    IF \E i \in 1..Len(prev) : prev[i].date = date
    THEN prev[CHOOSE i \in 1..Len(prev) :
                  prev[i].date = date /\ \A j \in 1..(i - 1) : prev[j].date # date]
    ELSE [date |-> date, totals |-> <<>>]

\* an update that overwrites the total with the value
WithTotalSet(log, entry) ==
    [log EXCEPT !.totals = [id \in (DOMAIN log.totals) \cup {entry.nutrientId} |->
        IF id = entry.nutrientId THEN entry.value ELSE log.totals[id]]]

\* newTotals[id] = (newTotals[id] || 0) + value
WithTotalAdded(log, entry) ==
    [log EXCEPT !.totals = [id \in (DOMAIN log.totals) \cup {entry.nutrientId} |->
        IF id = entry.nutrientId THEN TotalOf(log, id) + entry.value ELSE log.totals[id]]]

OtherDates(prev, date) ==
    LET Other(x) == x.date # date IN SelectSeq(prev, Other)

\* an update that removes no stored entry
AppendSleep(prev, date, newSleep) == prev \o <<newSleep>>

\* [...prev.filter(s => s.date !== today), newSleep]
ReplaceSleep(prev, date, newSleep) == OtherDates(prev, date) \o <<newSleep>>

HandleUpdateHealth(newSleep, nutrientEntry) ==
    /\ newSleep # <<>> \/ nutrientEntry # <<>>
    /\ IF newSleep # <<>>
       THEN /\ Len(sleep) < MaxSleep
            /\ sleep' = ReplaceSleep(sleep, today, newSleep[1])
       ELSE UNCHANGED sleep
    /\ IF nutrientEntry # <<>>
       THEN /\ activeTab = "vitalite"
            /\ TotalOf(ExistingLog(nutrition, today), nutrientEntry[1].nutrientId)
                   + nutrientEntry[1].value <= MaxTotal
            /\ nutrition' = OtherDates(nutrition, today)
                               \o << WithTotalAdded(ExistingLog(nutrition, today), nutrientEntry[1]) >>
       ELSE UNCHANGED nutrition
    /\ lastOp' = [op |-> "health", crit |-> "", value |-> <<newSleep, nutrientEntry>>]
    /\ streak' = 0
    /\ preSel' = {}
    /\ DeliverySettles
    /\ UNCHANGED <<activeTab, training, routines, activitySessions, cardioTypes, nutrients,
                   canShare, labVars, today, timeZoneWest, formVars, viewVars, caller>>
    /\ Persist

\* the button of a row of the journal; confirmed is the answer to window.confirm
HandleDeleteNutritionLog(date, confirmed) ==
    /\ activeTab = "vitalite"
    /\ nutrition' = IF confirmed THEN OtherDates(nutrition, date) ELSE nutrition
    /\ lastOp' = [op |-> IF confirmed THEN "deleteLog" ELSE "declined",
                  crit |-> "", value |-> <<date>>]
    /\ streak' = 0
    /\ preSel' = {}
    /\ DeliverySettles
    /\ UNCHANGED <<activeTab, training, routines, activitySessions, cardioTypes, nutrients,
                   canShare, labVars, appVars, formVars, viewVars, caller>>
    /\ Persist

\* NutritionView.handleAddValue: parseFloat of the field, not NaN
ValueChoices == {0, 10}

InitNutrition ==
    /\ activeTab = "vitalite"
    /\ training = <<>>
    /\ routines = <<>>
    /\ activitySessions = <<>>
    /\ cardioTypes = <<>>
    /\ nutrition = << DailyLog(MkDate(2024, 2, 20), [carb |-> 20]) >>
    /\ nutrients = StoreFull.nutrients
    /\ canShare = FALSE
    /\ sleep = <<>>
    /\ today = StartDay
    /\ timeZoneWest = FALSE
    /\ FormInit
    /\ isEditMode = FALSE
    /\ selectedIds = {}
    /\ showBulkMenu = FALSE
    /\ searchQuery = <<>>
    /\ analyzedExercise = NoExercise
    /\ visibleColumns = NutrientIds
    /\ HistoryInit
    /\ DeliveryInit
    /\ args = NoArgs
    /\ aiData = Report("FLAT")
    /\ LabInit
    /\ StoredInit

NextNutrition ==
    \/ \E id \in NutrientIds, value \in ValueChoices :
           HandleUpdateHealth(<<>>, <<NutritionEntry(id, value)>>)
    \/ \E log \in Range(VisibleItems), confirmed \in BOOLEAN :
           HandleDeleteNutritionLog(log.date, confirmed)
    \/ \E id \in NutrientIds : ToggleColumnVisibility(id)
    \/ Tick

SpecNutrition == InitNutrition /\ [][NextNutrition]_vars

\* entries a caller may pass: dated today or another day
SleepChoices == {SleepLog(date, score) : date \in {StartDay, LastDay}, score \in {70, 80, 90}}

InitSleep == InitNutrition

NextSleep ==
    \/ \E newSleep \in SleepChoices : HandleUpdateHealth(<<newSleep>>, <<>>)
    \/ Tick

SpecSleep == InitSleep /\ [][NextSleep]_vars

(***************************************************************************)
(* Deletion of a definition: AtelierMuscu.handleDeleteRoutineClick in the  *)
(* routine editor, ActivityView.handleDeleteProfile and                    *)
(* NutritionView.removeNutrient (SpecDefs).                                *)
(***************************************************************************)
WithoutId(defs, id) ==
    LET Other(d) == d.id # id IN SelectSeq(defs, Other)

\* a card of the routine library: setEditingRoutineId(r.id)
OpenRoutine(id) ==
    /\ activeTab = "atelier"
    /\ editingRoutineId = NoRoutine
    /\ \E i \in 1..Len(routines) : routines[i].id = id
    /\ editingRoutineId' = id
    /\ UserStep
    /\ DeliverySettles
    /\ UNCHANGED <<activeTab, storeVars, labVars, appVars, order, confirmDelete, viewVars, caller>>

\* the backdrop or TERMINER: setEditingRoutineId(null)
CloseRoutine ==
    /\ activeTab = "atelier"
    /\ editingRoutineId # NoRoutine
    /\ editingRoutineId' = NoRoutine
    /\ UserStep
    /\ DeliverySettles
    /\ UNCHANGED <<activeTab, storeVars, labVars, appVars, order, confirmDelete, viewVars, caller>>

\* the delete link of the editor, shown while routineToEdit exists
HandleDeleteRoutineClick ==
    /\ activeTab = "atelier"
    /\ editingRoutineId # NoRoutine
    /\ IF confirmDelete
       THEN /\ routines' = WithoutId(routines, editingRoutineId)
            /\ editingRoutineId' = NoRoutine
            /\ confirmDelete' = FALSE
            /\ lastOp' = [op |-> "deleteRoutine", crit |-> "", value |-> <<editingRoutineId>>]
       ELSE /\ confirmDelete' = TRUE
            /\ lastOp' = Op("armDelete")
            /\ UNCHANGED <<routines, editingRoutineId>>
    /\ streak' = 0
    /\ preSel' = {}
    /\ DeliverySettles
    /\ UNCHANGED <<activeTab, training, activitySessions, cardioTypes, nutrition, nutrients,
                   canShare, labVars, appVars, order, viewVars, caller>>
    /\ Persist

HandleDeleteProfile(id) ==
    /\ activeTab = "endurance"
    /\ \E i \in 1..Len(cardioTypes) : cardioTypes[i].id = id
    /\ cardioTypes' = WithoutId(cardioTypes, id)
    /\ lastOp' = [op |-> "deleteProfile", crit |-> "", value |-> <<id>>]
    /\ streak' = 0
    /\ preSel' = {}
    /\ DeliverySettles
    /\ UNCHANGED <<activeTab, training, routines, activitySessions, nutrition, nutrients,
                   canShare, labVars, appVars, formVars, viewVars, caller>>
    /\ Persist

RemoveNutrient(id) ==
    /\ activeTab = "vitalite"
    /\ id \in NutrientIds
    /\ nutrients' = WithoutId(nutrients, id)
    /\ visibleColumns' = visibleColumns \ {id}
    /\ lastOp' = [op |-> "removeNutrient", crit |-> "", value |-> <<id>>]
    /\ streak' = 0
    /\ preSel' = {}
    /\ DeliverySettles
    /\ UNCHANGED <<activeTab, training, routines, activitySessions, cardioTypes, nutrition,
                   canShare, labVars, appVars, formVars, isEditMode, selectedIds, showBulkMenu,
                   searchQuery, analyzedExercise, caller>>
    /\ Persist

InitDefs ==
    /\ activeTab = "atelier"
    /\ training = StoreFull.training
    /\ routines = StoreFull.routines
    /\ activitySessions = StoreFull.activitySessions
    /\ cardioTypes = StoreFull.cardioTypes
    /\ nutrition = StoreFull.nutrition
    /\ nutrients = StoreFull.nutrients
    /\ canShare = FALSE
    /\ sleep = <<>>
    /\ today = Today
    /\ timeZoneWest = FALSE
    /\ FormInit
    /\ ViewInit
    /\ HistoryInit
    /\ DeliveryInit
    /\ args = NoArgs
    /\ aiData = Report("FLAT")
    /\ LabInit
    /\ StoredInit

NextDefs ==
    \/ \E tab \in Journals : SetActiveTab(tab)
    \/ \E r \in Range(routines) : OpenRoutine(r.id)
    \/ CloseRoutine
    \/ HandleDeleteRoutineClick
    \/ \E c \in Range(cardioTypes) : HandleDeleteProfile(c.id)
    \/ \E id \in NutrientIds : RemoveNutrient(id)
    \/ \E id \in NutrientIds : ToggleColumnVisibility(id)

SpecDefs == InitDefs /\ [][NextDefs]_vars

(***************************************************************************)
(* ActivityView: the SUPPRIMER button of a card of the history (read mode) *)
(* and App's onDeleteSession; every removal of the application together    *)
(* (SpecRemove).                                                           *)
(***************************************************************************)
HandleDeleteCardioSession(id, confirmed) ==
    /\ activeTab = "endurance"
    /\ ~isEditMode
    /\ activitySessions' = IF confirmed THEN WithoutId(activitySessions, id)
                           ELSE activitySessions
    /\ lastOp' = [op |-> IF confirmed THEN "deleteCardio" ELSE "declined",
                  crit |-> "", value |-> <<id>>]
    /\ streak' = 0
    /\ preSel' = {}
    /\ DeliverySettles
    /\ UNCHANGED <<activeTab, training, routines, cardioTypes, nutrition, nutrients,
                   canShare, labVars, appVars, formVars, viewVars, caller>>
    /\ Persist

NextRemove ==
    \/ NextDefs
    \/ \E item \in Range(VisibleItems), confirmed \in BOOLEAN :
           HandleDeleteTrainingSession(item, confirmed)
    \/ \E s \in Range(VisibleItems), confirmed \in BOOLEAN :
           HandleDeleteCardioSession(s.id, confirmed)

SpecRemove == InitDefs /\ [][NextRemove]_vars

(***************************************************************************)
(* ActivityView.handleSaveSession for a profile of the continuous mode,    *)
(* and App.onAddSession.                                                   *)
(***************************************************************************)
RECURSIVE StrToNat(_)
StrToNat(str) ==
    IF str = <<>> THEN 0
    ELSE 10 * StrToNat(SubSeq(str, 1, Len(str) - 1))
         + (CHOOSE d \in 0..9 : Digits[d + 1] = str[Len(str)])

\* parseFloat of the text of a numeric field; an empty field gives NaN
parseFloat(text) == IF text = <<>> THEN NaN ELSE StrToNat(text)

\* parseFloat(x) || 0
OrZero(n) == IF Falsy(n) THEN 0 ELSE n

MaxSessions == Len(StoreFull.activitySessions)

\* Date.now().toString(): an id no stored session has
NewSessionId == CHOOSE id \in {"n1", "n2", "n3", "n4", "n5"} :
                    \A i \in 1..Len(activitySessions) : activitySessions[i].id # id

GlobalData(distance, duration, hr, watts) ==
    [distance |-> distance, duration |-> duration, hr |-> hr, watts |-> watts]

\* the form left empty but for the duration, and the form filled
GlobalDataChoices ==
    { GlobalData(<<>>, <<"3", "0">>, <<>>, <<>>),
      GlobalData(<<"5">>, <<"2", "5">>, <<"1", "5", "0">>, <<"2", "0", "0">>) }

NewSession(id, date, selectedType, globalData) ==
    [Cardio(id, date, selectedType.name, OrZero(parseFloat(globalData.distance)),
            OrZero(parseFloat(globalData.duration)), parseFloat(globalData.hr), <<>>)
        EXCEPT !.mode = <<"continuous">>, !.watts = parseFloat(globalData.watts)]

\* setActivitySessions(p => [s, ...p])
onAddSession(p, s) == <<s>> \o p

HandleSaveCardioSession(selectedType, globalData) ==
    /\ activeTab = "endurance"
    /\ Len(activitySessions) < MaxSessions
    /\ activitySessions' = onAddSession(activitySessions,
                               NewSession(NewSessionId, today, selectedType, globalData))
    /\ lastOp' = Op("saveCardio")
    /\ streak' = 0
    /\ preSel' = {}
    /\ DeliverySettles
    /\ UNCHANGED <<activeTab, training, routines, cardioTypes, nutrition, nutrients,
                   canShare, labVars, appVars, formVars, viewVars, caller>>
    /\ Persist

(***************************************************************************)
(* AnalysisView and App.handleRunAnalysis: the refresh button, the return  *)
(* of the analysis, the chat.                                              *)
(***************************************************************************)
restVars == <<activeTab, storeVars, appVars, formVars, viewVars, args, caller>>

\* the refresh button of the insight card, drawn while loading is false
HandleRefresh ==
    /\ activeTab = "lab"
    /\ subTab = "dashboard"
    /\ ~aiLoading
    /\ RunAnalysisStarts
    /\ UserStep
    /\ DeliverySettles
    /\ UNCHANGED <<restVars, aiData, subTab, messages, isChatLoading, chatPending>>

\* handleRunAnalysis after its await: the call of the service has settled
AnalysisReturns(outcome) ==
    /\ requests > 0
    /\ LET result == analyzeAthletePerformance(outcome)
       IN  /\ aiData' = IF result.thrown THEN aiData ELSE result.value
           /\ lastOp' = [op |-> "analysisReturns", crit |-> outcome, value |-> <<result>>]
    /\ aiLoading' = FALSE
    /\ requests' = requests - 1
    /\ UNCHANGED <<activeTab, training, routines, activitySessions, cardioTypes, nutrition,
                   nutrients, canShare, appVars, formVars, viewVars, csvVars, preSel, streak,
                   subTab, messages, isChatLoading, chatPending>>
    /\ Persist

SetSubTab(tab) ==
    /\ activeTab = "lab"
    /\ tab # subTab
    /\ subTab' = tab
    /\ UserStep
    /\ DeliverySettles
    /\ UNCHANGED <<restVars, aiData, aiLoading, requests, messages, isChatLoading, chatPending>>

\* handleSendMessage up to its await; the input and the button are disabled
\* while isChatLoading
HandleSendMessage(inputMessage) ==
    /\ activeTab = "lab"
    /\ subTab = "chat"
    /\ ~isChatLoading
    /\ trim(inputMessage) # <<>>
    /\ Len(messages) + 2 <= MaxMessages
    /\ messages' = Append(messages, ChatMessage("user", "question"))
    /\ isChatLoading' = TRUE
    /\ chatPending' = chatPending + 1
    /\ UserStep
    /\ DeliverySettles
    /\ UNCHANGED <<restVars, aiData, aiLoading, requests, subTab>>

\* handleSendMessage after its await; a call that throws ends the handler there
ChatReturns(outcome) ==
    /\ chatPending > 0
    /\ LET responseText == sendChatMessage(outcome)
       IN  /\ messages' = IF responseText.thrown THEN messages
                          ELSE Append(messages, ChatMessage("model", responseText.value))
           /\ isChatLoading' = IF responseText.thrown THEN isChatLoading ELSE FALSE
           /\ lastOp' = [op |-> "chatReturns", crit |-> outcome, value |-> <<responseText>>]
    /\ chatPending' = chatPending - 1
    /\ UNCHANGED <<restVars, csvVars, preSel, streak, aiData, aiLoading, requests, subTab>>

InputChoices == { <<" ">>, <<"h", "i">> }

InitLab ==
    /\ activeTab = "atelier"
    /\ training = StoreFull.training
    /\ routines = StoreFull.routines
    /\ activitySessions = StoreFull.activitySessions
    /\ cardioTypes = StoreFull.cardioTypes
    /\ nutrition = StoreFull.nutrition
    /\ nutrients = StoreFull.nutrients
    /\ canShare = FALSE
    /\ sleep = <<>>
    /\ today = Today
    /\ timeZoneWest = FALSE
    /\ FormInit
    /\ ViewInit
    /\ HistoryInit
    /\ DeliveryInit
    /\ args = NoArgs
    /\ aiData \in {Null, AnalysisError, Report("FLAT")}
    /\ LabInit
    /\ StoredInit

NextLab ==
    \/ \E tab \in Tabs : SetActiveTab(tab)
    \/ HandleRefresh
    \/ \E outcome \in AnalysisOutcomes : AnalysisReturns(outcome)
    \/ \E tab \in {"dashboard", "chat"} : SetSubTab(tab)
    \/ \E inputMessage \in InputChoices : HandleSendMessage(inputMessage)
    \/ \E outcome \in ChatOutcomes : ChatReturns(outcome)

SpecLab == InitLab /\ [][NextLab]_vars

(***************************************************************************)
(* AnalysisView.strengthData: the load of the last fourteen days.  The     *)
(* chart is computed from the strength journal and the clock alone         *)
(* (SpecChart).                                                            *)
(***************************************************************************)
ChartDays == 14

RECURSIVE DaysBack(_, _)
DaysBack(day, n) == IF n = 0 THEN day ELSE DaysBack(PrevDay(day), n - 1)

\* toLocaleDateString('fr-FR', {day: '2-digit', month: '2-digit'}) of a local day
DayMonth(day) ==
    IF day = InvalidDate THEN <<"Invalid Date">>
    ELSE Pad2(DayOf(day)) \o <<"/">> \o Pad2(MonthOf(day))

\* the keys data[key] = 0 of the loop for (i = 13; i >= 0; i--)
EmptyChart(now) ==
    SubSeq([i \in 1..ChartDays |-> [date |-> DayMonth(DaysBack(now, ChartDays - i)), vol |-> 0]],
           1, ChartDays)

\* now.getTime() - logDate.getTime() <= 14 days, now being a time of the day
\* now and logDate the midnight (UTC) of the date; NaN compares false
WithinDays(date, now) ==
    ParsedDay(date) # InvalidDate /\ ParsedDay(date) > DaysBack(now, ChartDays)

\* if (data[key] !== undefined) data[key] += log.tonnage
AddToKey(data, key, tonnage) ==
    LET Added(point) == IF point.date = key THEN [point EXCEPT !.vol = @ + tonnage] ELSE point
    IN  SubSeq([i \in 1..Len(data) |-> Added(data[i])], 1, Len(data))

RECURSIVE Accumulate(_, _, _)
Accumulate(data, logs, now) ==
    IF logs = <<>> THEN data
    ELSE Accumulate(IF WithinDays(Head(logs).date, now)
                    THEN AddToKey(data, DayMonth(LocalDay(Head(logs).date)), Head(logs).tonnage)
                    ELSE data,
                    Tail(logs), now)

\* Math.round(vol / 100) of a natural
RoundedHundredth(vol) == (vol + 50) \div 100

strengthData(logs, now) ==
    LET data == Accumulate(EmptyChart(now), logs, now)
    IN  [i \in 1..Len(data) |-> [date |-> data[i].date, vol |-> RoundedHundredth(data[i].vol)]]

\* journals that hold an entry of an older day: out of the window, or in it
ChartLogs ==
    { <<>>,
      << Log(DaysBack(StartDay, ChartDays), <<"P", "a">>, <<"S", "q">>, 1, 1, 100, 5) >>,
      << Log(DaysBack(StartDay, ChartDays - 1), <<"P", "a">>, <<"S", "q">>, 1, 1, 100, 5) >> }

InitChart ==
    /\ activeTab = "atelier"
    /\ training \in ChartLogs
    /\ routines = StoreFull.routines
    /\ activitySessions = <<>>
    /\ cardioTypes = <<>>
    /\ nutrition = <<>>
    /\ nutrients = <<>>
    /\ canShare = FALSE
    /\ sleep = <<>>
    /\ today = StartDay
    /\ timeZoneWest \in BOOLEAN
    /\ FormInit
    /\ ViewInit
    /\ HistoryInit
    /\ DeliveryInit
    /\ args = NoArgs
    /\ aiData = Report("FLAT")
    /\ LabInit
    /\ StoredInit

SpecChart == InitChart /\ [][NextTrain]_vars

(***************************************************************************)
(* The page is opened on what localStorage holds, and reloaded: every      *)
(* store is read back from its key (SpecPersist).                          *)
(***************************************************************************)
mockTraining == <<>>
mockSleep == <<>>
mockNutrition == <<>>
mockActivity == <<>>
DEFAULT_ROUTINES == <<>>
INITIAL_CARDIO_TYPES == <<>>

EmptyStorage == [key \in StorageKeys |-> NoItem]

\* what an earlier visit has left
VisitStorage ==
    AutoSave(<< Log(MkDate(2024, 2, 20), <<"P", "a">>, <<"S", "q">>, 1, 1, 50, 5) >>,
             << Routine("r1", <<"P", "a">>, "#112233") >>,
             << DailyLog(MkDate(2024, 2, 20), [carb |-> 20]) >>,
             << StoreFull.nutrients[2] >>,
             << SleepLog(MkDate(2024, 2, 20), 70) >>,
             << StoreFull.activitySessions[1] >>,
             << StoreFull.cardioTypes[2] >>,
             Report("FLAT"),
             EmptyStorage)

\* a visit of a version of the page that kept the strength journal alone
OlderStorage ==
    [key \in StorageKeys |->
        IF key \in {TRAINING_CACHE_KEY, ROUTINES_CACHE_KEY} THEN VisitStorage[key] ELSE NoItem]

PriorStorages == {EmptyStorage, VisitStorage, OlderStorage}

\* the lazy initial values of the useState calls of App
LoadedFrom(store) ==
    [training |-> Load(store, TRAINING_CACHE_KEY, mockTraining),
     sleep |-> Load(store, SLEEP_LOGS_KEY, mockSleep),
     nutrition |-> Load(store, NUTRITION_LOGS_KEY, mockNutrition),
     nutrients |-> Load(store, NUTRIENT_CONFIG_KEY, <<>>),
     activitySessions |-> Load(store, ACTIVITY_SESSIONS_KEY, mockActivity),
     cardioTypes |-> Load(store, CARDIO_TYPES_KEY, INITIAL_CARDIO_TYPES),
     routines |-> Load(store, ROUTINES_CACHE_KEY, DEFAULT_ROUTINES),
     aiData |-> Load(store, AI_ANALYSIS_KEY, Null)]

\* the stores held in memory
InMemory ==
    [training |-> training, sleep |-> sleep, nutrition |-> nutrition, nutrients |-> nutrients,
     activitySessions |-> activitySessions, cardioTypes |-> cardioTypes,
     routines |-> routines, aiData |-> aiData]

\* the page is reloaded: App mounts again and its effect saves what it loaded
Restart ==
    /\ LET loaded == LoadedFrom(storage)
       IN  /\ training' = loaded.training
           /\ sleep' = loaded.sleep
           /\ nutrition' = loaded.nutrition
           /\ nutrients' = loaded.nutrients
           /\ activitySessions' = loaded.activitySessions
           /\ cardioTypes' = loaded.cardioTypes
           /\ routines' = loaded.routines
           /\ aiData' = loaded.aiData
    /\ activeTab' = "atelier"
    /\ aiLoading' = FALSE
    /\ requests' = 0
    /\ LabMounts
    /\ isEditMode' = FALSE
    /\ selectedIds' = {}
    /\ showBulkMenu' = FALSE
    /\ searchQuery' = <<>>
    /\ analyzedExercise' = NoExercise
    /\ visibleColumns' = {}
    /\ order' = 1
    /\ editingRoutineId' = NoRoutine
    /\ confirmDelete' = FALSE
    /\ csvContent' = NoFile
    /\ dlPc' = "idle"
    /\ caller' = "none"
    /\ shared' = NoFile
    /\ downloaded' = NoFile
    /\ lastOp' = Op("restart")
    /\ streak' = 0
    /\ preSel' = {}
    /\ UNCHANGED <<canShare, today, timeZoneWest, args>>
    /\ Persist

InitPersist ==
    /\ activeTab = "atelier"
    /\ \E prior \in PriorStorages :
          /\ training = LoadedFrom(prior).training
          /\ sleep = LoadedFrom(prior).sleep
          /\ nutrition = LoadedFrom(prior).nutrition
          /\ nutrients = LoadedFrom(prior).nutrients
          /\ activitySessions = LoadedFrom(prior).activitySessions
          /\ cardioTypes = LoadedFrom(prior).cardioTypes
          /\ routines = LoadedFrom(prior).routines
          /\ aiData = LoadedFrom(prior).aiData
    /\ canShare = FALSE
    /\ today = StartDay
    /\ timeZoneWest = FALSE
    /\ FormInit
    /\ ViewInit
    /\ HistoryInit
    /\ DeliveryInit
    /\ args = NoArgs
    /\ LabInit
    /\ StoredInit

NextPersist ==
    \/ \E tab \in Tabs \ {"calendrier"} : SetActiveTab(tab)
    \/ \E selectedType \in Range(cardioTypes), globalData \in GlobalDataChoices :
           HandleSaveCardioSession(selectedType, globalData)
    \/ \E item \in Range(VisibleItems) : HandleDeleteTrainingSession(item, TRUE)
    \/ \E s \in Range(VisibleItems) : HandleDeleteCardioSession(s.id, TRUE)
    \/ \E r \in Range(routines) : OpenRoutine(r.id)
    \/ HandleDeleteRoutineClick
    \/ \E c \in Range(cardioTypes) : HandleDeleteProfile(c.id)
    \/ \E id \in NutrientIds : RemoveNutrient(id)
    \/ HandleUpdateHealth(<<SleepLog(today, 80)>>, <<>>)
    \/ \E id \in NutrientIds : HandleUpdateHealth(<<>>, <<NutritionEntry(id, 10)>>)
    \/ \E log \in Range(VisibleItems) : HandleDeleteNutritionLog(log.date, TRUE)
    \/ \E outcome \in AnalysisOutcomes : AnalysisReturns(outcome)
    \/ Restart

SpecPersist == InitPersist /\ [][NextPersist]_vars

(***************************************************************************)
(* Properties of the export serializer (SpecCsv).                          *)
(***************************************************************************)
IsSpecial(c) == c = Comma \/ c = Quote \/ c = Newline

HasSpecial(str) == \E i \in 1..Len(str) : IsSpecial(str[i])

RECURSIVE QuotesDoubled(_)
QuotesDoubled(str) ==
    IF str = <<>> THEN <<>>
    ELSE LET c == str[Len(str)]
         IN  QuotesDoubled(SubSeq(str, 1, Len(str) - 1))
             \o (IF c = Quote THEN <<c, c>> ELSE <<c>>)

ExpectedCell(cell) ==
    LET str == String(cell)
    IN  IF HasSpecial(str) THEN <<Quote>> \o QuotesDoubled(str) \o <<Quote>> ELSE str

RECURSIVE CommaSeparated(_)
CommaSeparated(texts) ==
    IF texts = <<>> THEN <<>>
    ELSE IF Len(texts) = 1 THEN texts[1]
    ELSE CommaSeparated(SubSeq(texts, 1, Len(texts) - 1)) \o <<Comma>> \o texts[Len(texts)]

RECURSIVE ExpectedRows(_)
ExpectedRows(rows) ==
    IF rows = <<>> THEN <<>>
    ELSE <<Newline>>
         \o CommaSeparated([j \in 1..Len(rows[1]) |-> ExpectedCell(rows[1][j])])
         \o ExpectedRows(Tail(rows))

\* C7: the serialized text is the byte-order mark, then the headers joined by
\* commas, then one line per row in the caller's order, each cell being its
\* string form, quoted with inner quotes doubled exactly when it contains a
\* comma, a double quote or a newline.
Thm_C7_CsvText ==
    dlPc # "idle" =>
        /\ csvContent # <<>>
        /\ Head(csvContent) = BOM
        /\ Tail(csvContent) = CommaSeparated(args.headers) \o ExpectedRows(args.rows)

Wit_C7_CsvText ==
    /\ dlPc # "idle"
    /\ args.rows = <<FixedRow, <<StrCell(SpecExampleCell), StrCell(<<Quote>>)>> >>

(***************************************************************************)
(* A quote-respecting CSV reader: records are separated by newlines and    *)
(* fields by commas outside quotes; inside quotes a doubled quote is one   *)
(* quote.  Malformed text (a quote inside an unquoted field, text after a  *)
(* closing quote, an unterminated quote) reads as Malformed.               *)
(***************************************************************************)
Malformed == <<"malformed">>

RECURSIVE ReadCsv(_, _, _, _, _)
ReadCsv(rest, field, record, records, mode) ==
    IF rest = <<>>
    THEN IF mode = "quoted" THEN Malformed
         ELSE records \o <<record \o <<field>>>>
    ELSE LET c == Head(rest)
             r == Tail(rest)
         IN  CASE mode = "start" ->
                    IF c = Quote THEN ReadCsv(r, <<>>, record, records, "quoted")
                    ELSE IF c = Comma THEN ReadCsv(r, <<>>, record \o <<field>>, records, "start")
                    ELSE IF c = Newline
                         THEN ReadCsv(r, <<>>, <<>>, records \o <<record \o <<field>>>>, "start")
                    ELSE ReadCsv(r, <<c>>, record, records, "plain")
               [] mode = "plain" ->
                    IF c = Quote THEN Malformed
                    ELSE IF c = Comma THEN ReadCsv(r, <<>>, record \o <<field>>, records, "start")
                    ELSE IF c = Newline
                         THEN ReadCsv(r, <<>>, <<>>, records \o <<record \o <<field>>>>, "start")
                    ELSE ReadCsv(r, field \o <<c>>, record, records, "plain")
               [] mode = "quoted" ->
                    IF c = Quote
                    THEN IF r # <<>> /\ Head(r) = Quote
                         THEN ReadCsv(Tail(r), field \o <<Quote>>, record, records, "quoted")
                         ELSE ReadCsv(r, field, record, records, "closed")
                    ELSE ReadCsv(r, field \o <<c>>, record, records, "quoted")
               [] mode = "closed" ->
                    IF c = Comma THEN ReadCsv(r, <<>>, record \o <<field>>, records, "start")
                    ELSE IF c = Newline
                         THEN ReadCsv(r, <<>>, <<>>, records \o <<record \o <<field>>>>, "start")
                    ELSE Malformed

CellStringsOf(row) == [j \in 1..Len(row) |-> String(row[j])]

\* C8: reading the serialized text back with a quote-respecting CSV reader
\* yields, after the header record, exactly the rows' cell strings, in order
\* and in the same number.
Thm_C8_CsvRoundTrip ==
    dlPc # "idle" =>
        LET records == ReadCsv(Tail(csvContent), <<>>, <<>>, <<>>, "start")
        IN  /\ records # Malformed
            /\ Tail(records) = [i \in 1..Len(args.rows) |-> CellStringsOf(args.rows[i])]

Wit_C8_CsvRoundTrip ==
    /\ dlPc # "idle"
    /\ args.rows = << <<StrCell(SpecExampleCell), StrCell(<<Newline>>)>>, FixedRow >>
    /\ ReadCsv(Tail(csvContent), <<>>, <<>>, <<>>, "start")[2][1] = SpecExampleCell

\* C10: the native share is attempted first, with the serialized CSV, exactly
\* when the platform supports file sharing; the download is not triggered
\* while the share is pending nor when it succeeds, and is triggered when
\* sharing is unsupported or the share fails; it carries the same content.
Thm_C10_Delivery ==
    /\ (dlPc # "idle" /\ canShare) => shared = csvContent
    /\ (dlPc # "idle" /\ ~canShare) => shared = NoFile
    /\ dlPc = "sharing" => downloaded = NoFile
    /\ dlPc = "done" =>
          ((downloaded # NoFile) <=> (~canShare \/ lastOp.op = "shareReject"))
    /\ downloaded # NoFile => downloaded = csvContent

Wit_C10_Delivery ==
    /\ dlPc = "done"
    /\ lastOp.op = "shareReject"
    /\ shared # NoFile
    /\ downloaded = shared

Wit_C10_ShareSucceeded ==
    dlPc = "done" /\ lastOp.op = "shareResolve" /\ downloaded = NoFile

(***************************************************************************)
(* Properties of smart selection and of selection mode (SpecSel).          *)
(***************************************************************************)
\* the ids the last smart selection aimed at; the list it reads is the
\* same before and after the call
LastTargetIds == IdsOf(TargetItems(lastOp.crit, lastOp.value))

\* C1: in each journal, handleSmartSelect on a non-empty target set removes
\* every target id from the selection when all of them were selected before
\* the call, and otherwise adds every target id; on an empty target set the
\* selection is unchanged.
Thm_C1_SmartToggle ==
    [][lastOp'.op = "smart" =>
         IF IdsOf(TargetItems(lastOp'.crit, lastOp'.value)) = {}
         THEN selectedIds' = selectedIds
         ELSE IF IdsOf(TargetItems(lastOp'.crit, lastOp'.value)) \subseteq selectedIds
         THEN IdsOf(TargetItems(lastOp'.crit, lastOp'.value)) \cap selectedIds' = {}
         ELSE IdsOf(TargetItems(lastOp'.crit, lastOp'.value)) \subseteq selectedIds']_vars

\* a smart selection has just selected a group that was only partly selected
Wit_C1_SmartToggle ==
    /\ lastOp.op = "smart"
    /\ streak = 1
    /\ LastTargetIds \subseteq selectedIds
    /\ LastTargetIds \cap preSel # {}
    /\ ~(LastTargetIds \subseteq preSel)

\* a smart selection has just deselected a fully selected group, in the
\* nutrition journal
Wit_C1_Deselected ==
    /\ activeTab = "vitalite"
    /\ lastOp.op = "smart"
    /\ streak = 1
    /\ LastTargetIds # {}
    /\ LastTargetIds \subseteq preSel
    /\ LastTargetIds \cap selectedIds = {}

\* C2 as stated: "same month" twice in succession, with no other change of
\* the selection or of the list in between, restores the selection, for
\* every selection state.
Cex_C2_MonthTwiceRestores ==
    (streak = 2 /\ lastOp.op = "smart") => selectedIds = preSel

\* C2, amended: "same month" twice in succession restores the selection
\* when the month's group was empty, entirely selected or entirely
\* unselected before the first call; from a partly selected group the two
\* calls leave the whole group unselected and every other id as it was.
Thm_C2_MonthTwice ==
    (streak = 2 /\ lastOp.op = "smart") =>
        IF \/ LastTargetIds = {}
           \/ LastTargetIds \subseteq preSel
           \/ LastTargetIds \cap preSel = {}
        THEN selectedIds = preSel
        ELSE selectedIds = preSel \ LastTargetIds

\* the second call has just restored a selection that held the whole group
Wit_C2_MonthTwice ==
    /\ streak = 2
    /\ lastOp.op = "smart"
    /\ LastTargetIds # {}
    /\ LastTargetIds \subseteq preSel
    /\ selectedIds = preSel

\* an item of the strength journal that the search hides: the search text
\* is not blank, no exercise is analysed, and neither the session name nor
\* an exercise of the session contains the text
HiddenStrength(id) ==
    /\ trim(searchQuery) # <<>>
    /\ analyzedExercise = NoExercise
    /\ ~includes(toLowerCase(BeforeSeparator(id[2])), toLowerCase(searchQuery))
    /\ \A i \in 1..Len(training) :
          KeyOf(training[i]) = id =>
             ~includes(toLowerCase(training[i].exercise), toLowerCase(searchQuery))

HiddenCardio(id) ==
    /\ trim(searchQuery) # <<>>
    /\ \A i \in 1..Len(activitySessions) :
          activitySessions[i].id = id =>
             /\ ~includes(toLowerCase(activitySessions[i].type), toLowerCase(searchQuery))
             /\ ~includes(toLowerCase(activitySessions[i].notes), toLowerCase(searchQuery))

HiddenBySearch(id) ==
    IF activeTab = "atelier" THEN HiddenStrength(id) ELSE HiddenCardio(id)

\* C3: in the strength and cardio journals, smart-select 'visible' adds no
\* id of an item that the search filter hides.
Thm_C3_VisibleOnly ==
    [][(activeTab \in {"atelier", "endurance"} /\ lastOp'.op = "smart"
        /\ lastOp'.crit = "visible") =>
          \A id \in selectedIds' \ selectedIds : ~HiddenBySearch(id)]_vars

\* 'visible' has just selected the filtered list while the search hides an
\* unselected session
Wit_C3_VisibleOnly ==
    /\ activeTab \in {"atelier", "endurance"}
    /\ lastOp.op = "smart"
    /\ lastOp.crit = "visible"
    /\ selectedIds # {}
    /\ selectedIds = LastTargetIds
    /\ \E id \in IdsOf(AllItems) : HiddenBySearch(id) /\ id \notin selectedIds

\* C4: a smart selection changes the membership of no id outside its
\* target group.
Thm_C4_Frame ==
    [][lastOp'.op = "smart" =>
         \A id \in (selectedIds \cup selectedIds') :
            id \notin IdsOf(TargetItems(lastOp'.crit, lastOp'.value)) =>
               (id \in selectedIds' <=> id \in selectedIds)]_vars

\* a group has just been selected while an id outside it stays selected
\* and another stays unselected
Wit_C4_Frame ==
    /\ lastOp.op = "smart"
    /\ LastTargetIds # {}
    /\ LastTargetIds \subseteq selectedIds
    /\ \E id \in selectedIds : id \notin LastTargetIds
    /\ \E id \in IdsOf(AllItems) : id \notin LastTargetIds /\ id \notin selectedIds

\* the lists isGroupSelected is asked about: the target of each shortcut of
\* the menu, and every prefix of the journal
CandidateLists ==
    {TargetItems(c[1], c[2]) : c \in OfferedCriteria}
    \cup {SubSeq(AllItems, 1, n) : n \in 0..Len(AllItems)}

\* C5 as stated: isGroupSelected is true iff every id of the list is
\* selected, for lists of any length.
Cex_C5_GroupSelectedIff ==
    \A list \in CandidateLists :
        IsGroupSelected(list) <=> (IdsOf(list) \subseteq selectedIds)

\* C5, amended: isGroupSelected is true iff the list is not empty and every
\* id of the list is selected.
Thm_C5_GroupSelected ==
    \A list \in CandidateLists :
        IsGroupSelected(list) <=> (list # <<>> /\ IdsOf(list) \subseteq selectedIds)

\* a non-empty group is reported selected while another is not
Wit_C5_GroupSelected ==
    /\ isEditMode
    /\ \E list \in CandidateLists : list # <<>> /\ IsGroupSelected(list)
    /\ \E list \in CandidateLists : list # <<>> /\ ~IsGroupSelected(list)

\* C6: every step that leaves selection mode in the strength or cardio
\* journal leaves the selection empty, the search text empty and the bulk
\* menu closed.
Cex_C6_ExitClearsAll ==
    [][(activeTab \in {"atelier", "endurance"} /\ activeTab' = activeTab
        /\ isEditMode /\ ~isEditMode') =>
          (selectedIds' = {} /\ searchQuery' = <<>> /\ ~showBulkMenu')]_vars

\* C9: every file an export produces starts with the byte-order mark.
Cex_C9_EveryExportHasBom ==
    /\ shared # NoFile => Head(shared) = BOM
    /\ downloaded # NoFile => Head(downloaded) = BOM

(***************************************************************************)
(* Properties of the order of exported rows (SpecOrder).                   *)
(***************************************************************************)
\* the pieces of a text between the occurrences of a separator
Split(text, sep) ==
    LET cuts == {i \in 1..Len(text) : text[i] = sep}
        Cut(k) == IF k = 0 THEN 0
                  ELSE IF k > Cardinality(cuts) THEN Len(text) + 1
                  ELSE CHOOSE i \in cuts : Cardinality({j \in cuts : j < i}) = k - 1
    IN  [k \in 1..(Cardinality(cuts) + 1) |-> SubSeq(text, Cut(k - 1) + 1, Cut(k) - 1)]

\* no cell of the saved file is quoted: line feeds and commas delimit it
PlainFile == \A i \in 1..Len(downloaded) : downloaded[i] # Quote

\* the data records of the file the export has just saved (mark and headers off)
ExportedRecords ==
    LET lines == Tail(Split(Tail(downloaded), Newline))
    IN  [i \in 1..Len(lines) |-> Split(lines[i], Comma)]

\* r1 must come strictly before r2: later date, else same date and smaller name
DateThenNameBefore(r1, r2) ==
    \/ CodeUnitLess(r2[1], r1[1])
    \/ r1[1] = r2[1] /\ localeCompare(r1[2], r2[2]) < 0

\* ... else same name and smaller order, else same order and smaller set number
StrengthBefore(r1, r2) ==
    \/ DateThenNameBefore(r1, r2)
    \/ /\ r1[1] = r2[1] /\ r1[2] = r2[2]
       /\ \/ StrToNat(r1[4]) < StrToNat(r2[4])
          \/ StrToNat(r1[4]) = StrToNat(r2[4]) /\ StrToNat(r1[5]) < StrToNat(r2[5])

StrengthSorted(rows) ==
    \A i, j \in 1..Len(rows) : i < j => ~StrengthBefore(rows[j], rows[i])

CardioSorted(rows) ==
    \A i, j \in 1..Len(rows) : i < j => ~DateThenNameBefore(rows[j], rows[i])

CardioSortedByDate(rows) ==
    \A i, j \in 1..Len(rows) : i < j => ~CodeUnitLess(rows[i][1], rows[j][1])

Thm_C11_StrengthOrder ==
    (lastOp.op = "export" /\ downloaded # NoFile /\ PlainFile) =>
        IF activeTab = "atelier" THEN StrengthSorted(ExportedRecords)
        ELSE CardioSortedByDate(ExportedRecords)

Summaries == flatItems(training, routines, <<>>, NoExercise)

\* positions of the stored entries of a date and session name
MembersAt(date, sessionName) ==
    {i \in 1..Len(training) : training[i].date = date /\ training[i].session = sessionName}

RECURSIVE ProductSum(_)
ProductSum(positions) ==
    IF positions = {} THEN 0
    ELSE LET i == CHOOSE k \in positions : TRUE
         IN  training[i].weight * training[i].reps + ProductSum(positions \ {i})

BucketsHolding(id) ==
    LET buckets == grouped(Summaries)
    IN  {b \in 1..Len(buckets) :
            \E k \in 1..Len(buckets[b].items) : buckets[b].items[k].id = id}

DatesDescending(items) ==
    \A i, j \in 1..Len(items) : i < j => items[i].date >= items[j].date

TimelineOrdered ==
    /\ DatesDescending(Summaries)
    /\ \A b \in 1..Len(grouped(Summaries)) : DatesDescending(grouped(Summaries)[b].items)

InBucketOfItsMonth ==
    \A n \in 1..Len(Summaries) :
        /\ Cardinality(BucketsHolding(Summaries[n].id)) = 1
        /\ \A b \in BucketsHolding(Summaries[n].id) :
               grouped(Summaries)[b].monthKey = MonthLabel(Summaries[n].date)

\* C14: the timeline lists the summaries by non-increasing date; every
\* summary is in exactly one month bucket, the one of the month and year of
\* its date; within each bucket the descending order is kept.
Cex_C14_MonthBuckets == TimelineOrdered /\ InBucketOfItsMonth

\* C14, where the local time is not behind UTC: order and buckets as stated;
\* the order and the single bucket hold in every time zone.
Thm_C14_TimelineOrder ==
    /\ TimelineOrdered
    /\ \A n \in 1..Len(Summaries) : Cardinality(BucketsHolding(Summaries[n].id)) = 1
    /\ ~timeZoneWest => InBucketOfItsMonth

\* a session saved on the first of March is listed under February
Wit_C14_MonthBuckets ==
    \E n \in 1..Len(Summaries) :
        /\ MonthOf(Summaries[n].date) = 3
        /\ \E b \in BucketsHolding(Summaries[n].id) :
               grouped(Summaries)[b].monthKey = MonthLabel(StartDay)

\* the positions of the entries that are not of the pair (date, session name)
KeptPositions(pair) ==
    {i \in 1..Len(training) : ~(training[i].date = pair[1] /\ training[i].session = pair[2])}

\* the k-th position of a set of positions, in increasing order
NthOf(positions, k) ==
    CHOOSE i \in positions : Cardinality({j \in positions : j < i}) = k - 1

\* C19: strength entries are never modified and are removed only by
\* handleDeleteTrainingSession: once confirmed it removes exactly the entries
\* whose date and session name are the given pair and leaves the others as
\* they are, in the same relative order; declined, it changes nothing; every
\* other step keeps the stored entries and at most appends new ones.
Thm_C19_DeleteSession ==
    [][CASE lastOp'.op = "deleteSession" ->
                /\ Len(training') = Cardinality(KeptPositions(lastOp'.value))
                /\ \A k \in 1..Len(training') :
                       training'[k] = training[NthOf(KeptPositions(lastOp'.value), k)]
         [] lastOp'.op = "declined" -> training' = training
         [] OTHER ->
                /\ Len(training') >= Len(training)
                /\ SubSeq(training', 1, Len(training)) = training]_vars

\* a session has just been deleted; an entry of its date and of another
\* session and an entry of its name and of another date remain
Wit_C19_DeleteSession ==
    /\ lastOp.op = "deleteSession"
    /\ Len(training) = 2
    /\ training[1].date = lastOp.value[1]
    /\ training[1].session # lastOp.value[2]
    /\ training[2].date # lastOp.value[1]
    /\ training[2].session = lastOp.value[2]

(***************************************************************************)
(* Properties of the timeline on a store with two formats of dates         *)
(* (SpecLegacy).                                                           *)
(***************************************************************************)
\* the calendar day a stored date denotes, whichever way it is written
CalendarDay(date) ==
    IF IsIso(date) THEN date ELSE MkDate(LastField(date), SecondField(date), FirstField(date))

SummaryOf(log) ==
    {n \in 1..Len(Summaries) : \E k \in 1..Len(Summaries[n].logs) : Summaries[n].logs[k] = log}

BucketsOf(log) ==
    LET buckets == grouped(Summaries)
    IN  {buckets[b].monthKey : b \in {c \in 1..Len(buckets) :
            \E k \in 1..Len(buckets[c].items) :
                \E m \in 1..Len(buckets[c].items[k].logs) : buckets[c].items[k].logs[m] = log}}

\* C13: two strength entries of the same session and the same calendar day,
\* one dated YYYY-MM-DD and the other DD/MM/YYYY, are placed in the same
\* session summary and in the same month bucket.
Cex_C13_MixedFormats ==
    \A i, j \in 1..Len(training) :
        (/\ training[i].session = training[j].session
         /\ CalendarDay(training[i].date) = CalendarDay(training[j].date)) =>
            /\ SummaryOf(training[i]) = SummaryOf(training[j])
            /\ BucketsOf(training[i]) = BucketsOf(training[j])

\* the same two entries share neither summary nor month bucket
Wit_C13_MixedFormats ==
    \E i, j \in 1..Len(training) :
        /\ training[i].session = training[j].session
        /\ IsIso(training[i].date) /\ ~IsIso(training[j].date)
        /\ CalendarDay(training[i].date) = CalendarDay(training[j].date)
        /\ SummaryOf(training[i]) \cap SummaryOf(training[j]) = {}
        /\ BucketsOf(training[i]) \cap BucketsOf(training[j]) = {}

(***************************************************************************)
(* Properties of the progression of the analysed exercise (SpecAnalysis).  *)
(***************************************************************************)
Analysed == analyzedExercise # NoExercise

Progression == analyticsData(training, analyzedExercise)

\* the days with at least one logged set of the analysed exercise
LoggedDays == {training[i].date : i \in {k \in 1..Len(training) : training[k].exercise = analyzedExercise}}

\* the greatest weight among the sets of the analysed exercise on a day
DailyMax(date) ==
    CHOOSE m \in 0..200 :
        /\ \E i \in 1..Len(training) :
               training[i].exercise = analyzedExercise /\ training[i].date = date
               /\ training[i].weight = m
        /\ \A i \in 1..Len(training) :
               (training[i].exercise = analyzedExercise /\ training[i].date = date)
                   => training[i].weight <= m

ChartOver(days) ==
    LET chartData == Progression.chartData
    IN  /\ {chartData[i].fullDate : i \in 1..Len(chartData)} = days
        /\ Len(chartData) = Cardinality(days)
        /\ \A i, j \in 1..Len(chartData) : i < j => chartData[i].fullDate < chartData[j].fullDate
        /\ \A i \in 1..Len(chartData) : chartData[i].weight = DailyMax(chartData[i].fullDate)

\* C15: the chart of the analysed exercise has exactly one point for each
\* day with at least one logged set of it, in ascending order of date, and
\* the weight of a point is the greatest weight of the sets of its day.
Cex_C15_ChartPoints == Analysed => ChartOver(LoggedDays)

\* C15, as the code has it: the points are the days with a set of positive weight
Thm_C15_ChartOfLoadedDays ==
    Analysed => ChartOver({d \in LoggedDays : DailyMax(d) > 0})

\* a day whose only set of the analysed exercise has no load is not charted
Wit_C15_ChartPoints ==
    /\ Analysed
    /\ \E d \in LoggedDays :
           /\ DailyMax(d) = 0
           /\ \A i \in 1..Len(Progression.chartData) : Progression.chartData[i].fullDate # d

\* the flags of the history, oldest first
FlagsByDate == [i \in 1..Len(Progression.historyList) |->
                   Reverse(Progression.historyList)[i].trend]

MaxByDate == [i \in 1..Len(Progression.historyList) |->
                   Reverse(Progression.historyList)[i].maxWeight]

OnePerDate(logs) == \A i, j \in 1..Len(logs) : logs[i].date = logs[j].date => i = j

NutrientAdded == lastOp'.op = "health" /\ lastOp'.value[2] # <<>>

\* the effect of the addition of lastOp' on the record of today
AddedToToday ==
    LET entry == lastOp'.value[2][1]
        before == ExistingLog(nutrition, today)
        after == ExistingLog(nutrition', today)
    IN  /\ \E i \in 1..Len(nutrition') : nutrition'[i].date = today
        /\ entry.nutrientId \in DOMAIN after.totals
        /\ after.totals[entry.nutrientId] =
               (IF /\ \E i \in 1..Len(nutrition) : nutrition[i].date = today
                   /\ entry.nutrientId \in DOMAIN before.totals
                THEN before.totals[entry.nutrientId] ELSE 0) + entry.value
        /\ (DOMAIN after.totals) \ {entry.nutrientId} = (DOMAIN before.totals) \ {entry.nutrientId}
        /\ \A id \in (DOMAIN after.totals) \ {entry.nutrientId} :
               after.totals[id] = before.totals[id]
        /\ (~\E i \in 1..Len(nutrition) : nutrition[i].date = today)
               => DOMAIN after.totals = {entry.nutrientId}

OtherDatesKept ==
    LET NotToday(log) == log.date # today
    IN  SelectSeq(nutrition', NotToday) = SelectSeq(nutrition, NotToday)

\* C17: after any additions of nutrients and deletions of nutrition logs the
\* collection holds at most one record per date; an addition of (nutrientId,
\* value) increases today's total of that nutrient by exactly value, from 0
\* in a record with empty totals when today has none, and leaves the other
\* totals of today and the records of the other dates unchanged.
Thm_C17_NutrientAddition ==
    /\ [](OnePerDate(nutrition))
    /\ [][NutrientAdded => (AddedToToday /\ OtherDatesKept)]_vars

\* 10 has just been added to a total of 10 of today, next to another total
\* of today and to the record of an earlier day
Wit_C17_NutrientAddition ==
    /\ lastOp.op = "health"
    /\ lastOp.value[2] = <<NutritionEntry("prot", 10)>>
    /\ Len(nutrition) = 3
    /\ TotalOf(ExistingLog(nutrition, today), "prot") = 20
    /\ TotalOf(ExistingLog(nutrition, today), "carb") = 10

\* a first addition of the day has just created the record of today
Wit_C17_NewRecord ==
    /\ lastOp.op = "health"
    /\ today = LastDay
    /\ ExistingLog(nutrition, today).totals = [carb |-> 10]
    /\ Len(nutrition) = 2

(***************************************************************************)
(* Properties of the sleep store (SpecSleep).                              *)
(***************************************************************************)
SleepSubmitted == lastOp'.op = "health" /\ lastOp'.value[1] # <<>>

DefinitionDeleted == lastOp'.op \in {"deleteRoutine", "deleteProfile", "removeNutrient"}

LogsKept ==
    /\ training' = training
    /\ activitySessions' = activitySessions
    /\ nutrition' = nutrition

\* every strength entry of a session without routine is in a summary of the
\* timeline, of the default colour
OrphanSessionsListed ==
    \A i \in 1..Len(training) :
        (~\E r \in Range(routines) : r.name = training[i].session) =>
            \E n \in 1..Len(Summaries) :
                /\ \E k \in 1..Len(Summaries[n].logs) : Summaries[n].logs[k] = training[i]
                /\ Summaries[n].color = DefaultColor

\* every cardio session of a type without definition is a card of the
\* history, of the default colour
OrphanCardioListed ==
    \A i \in 1..Len(activitySessions) :
        (~\E c \in Range(cardioTypes) : c.name = activitySessions[i].type) =>
            /\ activitySessions[i] \in Range(filteredHistory(activitySessions, <<>>))
            /\ CardioColor(cardioTypes, activitySessions[i].type) = DefaultColor

\* every nutrition log with a total of a nutrient without definition is a
\* row of the journal, all remaining columns shown
OrphanNutritionListed ==
    \A i \in 1..Len(nutrition) :
        (\E id \in DOMAIN nutrition[i].totals :
             nutrition[i].totals[id] > 0 /\ id \notin NutrientIds) =>
            nutrition[i] \in Range(activeHistory(nutrition, nutrients, NutrientIds))

JustDeleted == lastOp.op \in {"deleteRoutine", "deleteProfile", "removeNutrient"}

\* C20: the deletion of a routine, of a cardio type or of a nutrient leaves
\* the strength entries, the cardio sessions and the nutrition logs as they
\* are, and the logs that referenced the deleted definition are still
\* grouped and listed, with the default colour.
Cex_C20_OrphansListed ==
    /\ [][DefinitionDeleted => LogsKept]_vars
    /\ [](JustDeleted =>
            (OrphanSessionsListed /\ OrphanCardioListed /\ OrphanNutritionListed))

\* C20, the part the code keeps: the three collections are unchanged, and
\* the strength sessions and cardio sessions left without definition are
\* listed with the default colour.
Thm_C20_OrphansKept ==
    /\ [][DefinitionDeleted => LogsKept]_vars
    /\ [](JustDeleted => (OrphanSessionsListed /\ OrphanCardioListed))

\* a nutrient has just been removed and a stored log that holds only totals
\* of it is no longer a row of the journal
Wit_C20_OrphansListed ==
    /\ lastOp.op = "removeNutrient"
    /\ ~OrphanNutritionListed

\* a routine has been deleted and its sessions are listed in the default colour
Wit_C20_RoutineDeleted ==
    /\ lastOp.op = "deleteRoutine"
    /\ \E n \in 1..Len(Summaries) :
           Summaries[n].color = DefaultColor /\ Summaries[n].sessionName = <<"b">>

(***************************************************************************)
(* Properties of the confirmation of removals (SpecRemove, SpecDefs).      *)
(***************************************************************************)
\* an element of the collection is no longer in it after the step
RemovedFrom(before, after) == \E i \in 1..Len(before) : before[i] \notin Range(after)

\* the step follows a confirmation: window.confirm was answered OK in the
\* handler, or the delete link of the routine editor was armed before
ConfirmationPreceded == lastOp'.op \in {"deleteSession", "deleteCardio"} \/ confirmDelete

\* C21: no strength session, cardio session, routine or nutrient definition
\* is removed from its collection unless an explicit confirmation by the
\* user preceded the removal.
Cex_C21_ConfirmedRemovals ==
    [][(\/ RemovedFrom(training, training')
        \/ RemovedFrom(activitySessions, activitySessions')
        \/ RemovedFrom(routines, routines')
        \/ RemovedFrom(nutrients, nutrients')) => ConfirmationPreceded]_vars

\* C21, the part the code keeps: sessions and routines are removed only
\* after a confirmation.
Thm_C21_SessionsAndRoutines ==
    [][(\/ RemovedFrom(training, training')
        \/ RemovedFrom(activitySessions, activitySessions')
        \/ RemovedFrom(routines, routines')) => ConfirmationPreceded]_vars

\* a nutrient definition has just been removed by the single click of its
\* button
Wit_C21_ConfirmedRemovals ==
    /\ lastOp.op = "removeNutrient"
    /\ Len(nutrients) < Len(StoreFull.nutrients)

\* the steps of the delete link: the first arms and deletes nothing, the
\* second deletes the routine being edited and disarms
TwoSteps ==
    /\ lastOp'.op = "armDelete" =>
           /\ ~confirmDelete /\ confirmDelete'
           /\ routines' = routines
           /\ editingRoutineId' = editingRoutineId
    /\ RemovedFrom(routines, routines') =>
           /\ confirmDelete /\ ~confirmDelete'
           /\ lastOp'.op = "deleteRoutine"
           /\ \A i \in 1..Len(routines) :
                  routines[i] \in Range(routines') <=> routines[i].id # editingRoutineId
           /\ editingRoutineId' = NoRoutine

\* C22: the deletion of a routine takes two steps: the first click arms the
\* confirmation and deletes nothing, the second deletes the routine being
\* edited and returns to idle; the armed state returns to idle whenever the
\* user leaves the editor (closing it, opening another routine, changing
\* tab) before the second click.
Cex_C22_ArmedOnlyInEditor ==
    /\ [][TwoSteps]_vars
    /\ [](confirmDelete => editingRoutineId # NoRoutine)

\* C22, the part the code keeps: the two steps, and the return to idle at a
\* change of tab.
Thm_C22_TwoSteps ==
    [][TwoSteps /\ (activeTab' # activeTab => ~confirmDelete')]_vars

\* the editor of a routine has been closed and the confirmation is still armed
Wit_C22_ArmedOnlyInEditor ==
    /\ confirmDelete
    /\ editingRoutineId = NoRoutine
    /\ routines = StoreFull.routines

(***************************************************************************)
(* Persistence of the stores (SpecPersist).                                *)
(***************************************************************************)
\* every key holds a text, and reading the eight keys gives the stores
\* held in memory
Persisted ==
    /\ \A key \in StorageKeys : storage[key] # NoItem
    /\ LoadedFrom(storage) = InMemory

\* nothing saved: every store is empty and there is no analysis result
EmptyLoaded ==
    LoadedFrom(EmptyStorage) =
        [training |-> <<>>, sleep |-> <<>>, nutrition |-> <<>>, nutrients |-> <<>>,
         activitySessions |-> <<>>, cardioTypes |-> <<>>, routines |-> <<>>,
         aiData |-> Null]

\* what JSON keeps of the stores held in memory
InMemoryAsJson == [InMemory EXCEPT !.activitySessions = JsonSessions(@)]

\* C23: after every change of a store, the text saved under each key reads
\* back as the whole store held in memory, so a reload of the page leaves the
\* eight stores as they were; a key that holds nothing loads as the empty
\* store.
Cex_C23_Persistence ==
    /\ [](Persisted /\ EmptyLoaded)
    /\ [][lastOp'.op = "restart" => InMemory' = InMemory]_vars

\* the part the code keeps: every key is written at every change with the
\* whole of its store as JSON writes it, and a reload gives that back
Thm_C23_SavedAsJson ==
    /\ [](/\ \A key \in StorageKeys : storage[key] # NoItem
          /\ LoadedFrom(storage) = InMemoryAsJson
          /\ EmptyLoaded)
    /\ [][lastOp'.op = "restart" => InMemory' = InMemoryAsJson]_vars

\* a cardio session saved with its heart-rate field left empty: NaN in
\* memory, null in the saved text
Wit_C23_Persistence ==
    /\ lastOp.op = "saveCardio"
    /\ activitySessions[1].hr = NaN
    /\ JsonParse(storage[ACTIVITY_SESSIONS_KEY])[1].hr = JsonNull
    /\ LoadedFrom(storage) # InMemory

(***************************************************************************)
(* Failures of the text-generation service (SpecLab).                      *)
(***************************************************************************)
AnalysisFailures == {outcome \in AnalysisOutcomes : GenerateContent(outcome).thrown}

ChatFailures == {"rejected", "empty"}

FallbackTexts == {NoAnswerText, ConnectionErrorText}

\* C24: a failure of the call makes analyzeAthletePerformance return the error
\* sentinel and sendChatMessage return a fallback text; neither throws, and
\* once a call has returned the loading flag of its caller is false.
Thm_C24_ServiceFailures ==
    /\ \A outcome \in AnalysisOutcomes :
          /\ ~analyzeAthletePerformance(outcome).thrown
          /\ outcome \in AnalysisFailures
                => analyzeAthletePerformance(outcome).value = AnalysisError
    /\ \A outcome \in ChatOutcomes :
          /\ ~sendChatMessage(outcome).thrown
          /\ outcome \in ChatFailures => sendChatMessage(outcome).value \in FallbackTexts
    /\ lastOp.op = "analysisReturns"
          => /\ ~aiLoading
             /\ ~lastOp.value[1].thrown
             /\ lastOp.crit \in AnalysisFailures => aiData[1].isError
    /\ lastOp.op = "chatReturns"
          => /\ ~isChatLoading
             /\ ~lastOp.value[1].thrown
             /\ messages[Len(messages)] = ChatMessage("model", lastOp.value[1].value)
             /\ lastOp.crit \in ChatFailures => messages[Len(messages)].text \in FallbackTexts

\* an analysis whose text could not be parsed has returned
Wit_C24_ServiceFailures ==
    /\ lastOp.op = "analysisReturns"
    /\ lastOp.crit = "unparsable"
    /\ aiData = AnalysisError
    /\ ~aiLoading
    /\ requests = 0

\* a chat call that was rejected has returned
Wit_C24_ChatFailure ==
    /\ lastOp.op = "chatReturns"
    /\ lastOp.crit = "rejected"
    /\ messages[Len(messages)].text = ConnectionErrorText
    /\ ~isChatLoading

(***************************************************************************)
(* Analysis requests in flight (SpecLab).                                  *)
(***************************************************************************)
OtherViewsUsable ==
    /\ \A tab \in Tabs \ {activeTab} : ENABLED SetActiveTab(tab)
    /\ activeTab = "lab" => \A tab \in {"dashboard", "chat"} \ {subTab} : ENABLED SetSubTab(tab)

\* C30: at most one analysis request is in flight; a request starts only
\* while aiLoading is false, aiLoading is true exactly while a request is
\* pending, whatever the order of tab switches and returns; and while a
\* request is pending every other view can still be opened.
Thm_C30_OneRequest ==
    /\ [](requests <= 1)
    /\ [](aiLoading <=> requests > 0)
    /\ [][requests' > requests => ~aiLoading]_vars
    /\ [](aiLoading => OtherViewsUsable)

\* the lab view is shown on no result yet: the request of a mount is
\* pending and the refresh button is not drawn
Wit_C30_OneRequest ==
    /\ activeTab = "lab"
    /\ aiData = Null
    /\ aiLoading
    /\ requests = 1
    /\ lastOp.op = "other"
    /\ storage[AI_ANALYSIS_KEY] = JsonStringify(Null)
    /\ ~ENABLED HandleRefresh

(***************************************************************************)
(* Properties of the fourteen-day load (SpecChart).                        *)
(***************************************************************************)
\* the days from today - 13 to today, oldest first
ChartWindow == [i \in 1..ChartDays |-> DaysBack(today, ChartDays - i)]

\* the sum of the tonnage of the entries dated a day
RECURSIVE TonnageDated(_, _)
TonnageDated(logs, day) ==
    IF logs = <<>> THEN 0
    ELSE (IF Head(logs).date = day THEN Head(logs).tonnage ELSE 0) + TonnageDated(Tail(logs), day)

LoadOfEachDay ==
    strengthData(training, today) =
        [i \in 1..ChartDays |->
            [date |-> DayMonth(ChartWindow[i]),
             vol |-> RoundedHundredth(TonnageDated(training, ChartWindow[i]))]]

\* C25: the series has fourteen points, one per day from today - 13 to today,
\* oldest first; the value of a point is the rounded hundredth of the sum of
\* the tonnage of the entries dated that day, and an entry dated outside the
\* window adds to no point.
Cex_C25_LoadOfEachDay == LoadOfEachDay

\* the part the code keeps: the fourteen points and their days in every time
\* zone, and their values where the local time is not behind UTC
Thm_C25_LoadOfEachDay ==
    LET data == SubSeq(strengthData(training, today), 1, ChartDays)
    IN  /\ Len(strengthData(training, today)) = ChartDays
        /\ \A i \in 1..ChartDays : data[i].date = DayMonth(ChartWindow[i])
        /\ ~timeZoneWest => LoadOfEachDay

\* an entry dated today is counted in the point of the day before
Wit_C25_LoadOfEachDay ==
    /\ timeZoneWest
    /\ TonnageDated(training, today) > 0
    /\ TonnageDated(training, PrevDay(today)) = 0
    /\ LET data == SubSeq(strengthData(training, today), 1, ChartDays)
       IN  data[ChartDays].vol = 0 /\ data[ChartDays - 1].vol > 0

(***************************************************************************)
(* CalendarView: normalizeDate, getDayData and getDayDetails, on stores    *)
(* that hold dates of both formats (SpecCalendar).                         *)
(***************************************************************************)
\* text.padStart(2, '0')
PadStart2(text) ==
    IF Len(text) = 0 THEN <<"0", "0">> ELSE IF Len(text) = 1 THEN <<"0">> \o text ELSE text

\* a normalization that knows the ISO format alone
normalizeIsoOnly(dateStr) ==
    IF dateStr = <<>> THEN <<>> ELSE Split(dateStr, "T")[1]

normalizeDate(dateStr) ==
    IF dateStr = <<>> THEN <<>>
    ELSE IF \E i \in 1..Len(dateStr) : dateStr[i] = "/"
    THEN LET d == Split(dateStr, "/")[1]
             m == Split(dateStr, "/")[2]
             y == Split(dateStr, "/")[3]
             year == IF Len(y) = 2 THEN <<"2", "0">> \o y ELSE y
         IN  year \o <<"-">> \o PadStart2(m) \o <<"-">> \o PadStart2(d)
    ELSE Split(dateStr, "T")[1]

\* Array.from(new Set(values)): the values in the order of their first occurrence
RECURSIVE Unique(_)
Unique(values) ==
    IF values = <<>> THEN <<>>
    ELSE LET before == Unique(SubSeq(values, 1, Len(values) - 1))
         IN  IF values[Len(values)] \in Range(before) THEN before
             ELSE Append(before, values[Len(values)])

OfDate(records, dateStr) ==
    LET Same(r) == normalizeDate(DateStr(r.date)) = dateStr IN SelectSeq(records, Same)

OfSession(logs, name) ==
    LET Same(t) == t.session = name IN SelectSeq(logs, Same)

\* routines.find(r => r.name === name)?.color || fallback
ColorOr(defs, name, fallback) ==
    IF \E i \in 1..Len(defs) : defs[i].name = name
    THEN defs[CHOOSE i \in 1..Len(defs) :
                 /\ defs[i].name = name
                 /\ \A j \in 1..(i - 1) : defs[j].name # name].color
    ELSE fallback

Forced(seq) == SubSeq(seq, 1, Len(seq))

getDayData(year, month, day, trainingLogs, sessions, rs, types) ==
    LET dateStr == NatToStr(year) \o <<"-">> \o PadStart2(NatToStr(month)) \o <<"-">>
                       \o PadStart2(NatToStr(day))
        dayLogs == OfDate(trainingLogs, dateStr)
        names == Unique(Forced([i \in 1..Len(dayLogs) |-> dayLogs[i].session]))
        endurance == OfDate(sessions, dateStr)
    IN  [dateStr |-> dateStr,
         items |-> Forced([i \in 1..Len(names) |->
                              [type |-> "muscu", name |-> names[i],
                               color |-> ColorOr(rs, names[i], "#000")]])
                   \o Forced([i \in 1..Len(endurance) |->
                              [type |-> "cardio", name |-> endurance[i].type,
                               color |-> ColorOr(types, endurance[i].type, "#EF4444")]])]

getDayDetails(dateStr, trainingLogs, sessions, rs, types) ==
    LET endurance == OfDate(sessions, dateStr)
        dayLogs == OfDate(trainingLogs, dateStr)
        names == Unique(Forced([i \in 1..Len(dayLogs) |-> dayLogs[i].session]))
    IN  Forced([i \in 1..Len(names) |->
                   [type |-> "muscu", name |-> names[i],
                    color |-> ColorOr(rs, names[i], "#000000"),
                    tonnage |-> SumTonnage(OfSession(dayLogs, names[i]))]])
        \o Forced([i \in 1..Len(endurance) |->
                   [type |-> "cardio", name |-> endurance[i].type,
                    color |-> ColorOr(types, endurance[i].type, "#EF4444"),
                    tonnage |-> 0]])

\* journals written by two versions of the page: DD/MM/YYYY, DD/MM/YY and
\* YYYY-MM-DD for the same days
CalendarStores ==
    { [training |-> << Log(MkDate(2024, 3, 5), <<"P", "a">>, <<"S", "q">>, 1, 1, 100, 5),
                       Log(SlashDate(5, 3, 2024), <<"P", "a">>, <<"D", "l">>, 2, 1, 120, 3) >>,
       activitySessions |-> << Cardio("c1", SlashDate(5, 3, 24), <<"R", "o">>, 5, 30, 0, <<>>),
                               Cardio("c2", MkDate(2024, 3, 5), <<"S", "p">>, 5, 27, 150, <<>>) >>],
      [training |-> << Log(SlashDate(25, 3, 24), <<"b">>, <<"S", "q">>, 1, 1, 90, 5),
                       Log(MkDate(2024, 3, 25), <<"b">>, <<"D", "l">>, 2, 1, 110, 3) >>,
       activitySessions |-> << Cardio("c1", SlashDate(25, 3, 2024), <<"R", "o">>, 5, 30, 0, <<>>) >>] }

InitCalendar ==
    /\ activeTab = "calendrier"
    /\ \E store \in CalendarStores :
          /\ training = store.training
          /\ activitySessions = store.activitySessions
    /\ routines = StoreFull.routines
    /\ cardioTypes = StoreFull.cardioTypes
    /\ nutrition = <<>>
    /\ nutrients = <<>>
    /\ canShare = FALSE
    /\ sleep = <<>>
    /\ today = StartDay
    /\ timeZoneWest = FALSE
    /\ FormInit
    /\ ViewInit
    /\ HistoryInit
    /\ DeliveryInit
    /\ args = NoArgs
    /\ aiData = Report("FLAT")
    /\ LabInit
    /\ StoredInit

NextCalendar ==
    \/ \E tab \in {"calendrier", "atelier", "endurance"} : SetActiveTab(tab)
    \/ HandleSaveSession(routines[1], <<"S", "q">>, << SetData(55, 3) >>)
    \/ \E item \in Range(VisibleItems) : HandleDeleteTrainingSession(item, TRUE)
    \/ HandleSaveCardioSession(cardioTypes[1], GlobalData(<<"5">>, <<"2", "5">>, <<>>, <<>>))
    \/ \E session \in Range(VisibleItems) : HandleDeleteCardioSession(session.id, TRUE)

SpecCalendar == InitCalendar /\ [][NextCalendar]_vars

(***************************************************************************)
(* Properties of the calendar (SpecCalendar).                              *)
(***************************************************************************)
\* the calendar day a stored date names, whatever its format
DayNamed(date) ==
    IF IsIso(date) THEN date
    ELSE MkDate(IF LastField(date) < 100 THEN 2000 + LastField(date) ELSE LastField(date),
                SecondField(date), FirstField(date))

StoredDates ==
    {training[i].date : i \in 1..Len(training)}
        \cup {activitySessions[i].date : i \in 1..Len(activitySessions)}

DaysShown == {DayNamed(date) : date \in StoredDates} \cup {today}

LogsOfDay(day) == {i \in 1..Len(training) : DayNamed(training[i].date) = day}

SessionsOfDay(day) ==
    {i \in 1..Len(activitySessions) : DayNamed(activitySessions[i].date) = day}

RECURSIVE TonnageOfSession(_, _, _)
TonnageOfSession(logs, day, name) ==
    IF logs = <<>> THEN 0
    ELSE (IF DayNamed(Head(logs).date) = day /\ Head(logs).session = name
          THEN Head(logs).tonnage ELSE 0) + TonnageOfSession(Tail(logs), day, name)

OfType(items, type) == LET Same(item) == item.type = type IN SelectSeq(items, Same)

NormalizesToTheDay ==
    /\ \A date \in StoredDates :
          /\ normalizeDate(DateStr(date)) = DateStr(DayNamed(date))
          /\ normalizeDate(normalizeDate(DateStr(date))) = normalizeDate(DateStr(date))
    /\ normalizeDate(<<"5", "/", "3", "/", "2", "4">>) = DateStr(MkDate(2024, 3, 5))
    /\ normalizeDate(DateStr(today) \o <<"T", "1", "0", ":", "0", "0">>) = DateStr(today)

DetailsOfTheDay(day) ==
    LET details == getDayDetails(DateStr(day), training, activitySessions, routines, cardioTypes)
        muscu == OfType(details, "muscu")
        cardio == OfType(details, "cardio")
    IN  /\ {muscu[i].name : i \in 1..Len(muscu)} = {training[i].session : i \in LogsOfDay(day)}
        /\ \A i, j \in 1..Len(muscu) : muscu[i].name = muscu[j].name => i = j
        /\ \A i \in 1..Len(muscu) :
              muscu[i].tonnage = TonnageOfSession(training, day, muscu[i].name)
        /\ Len(cardio) = Cardinality(SessionsOfDay(day))
        /\ {cardio[i].name : i \in 1..Len(cardio)}
              = {activitySessions[i].type : i \in SessionsOfDay(day)}

DataOfTheDay(day) ==
    LET items == getDayData(YearOf(day), MonthOf(day), DayOf(day), training,
                            activitySessions, routines, cardioTypes).items
        muscu == OfType(items, "muscu")
        cardio == OfType(items, "cardio")
    IN  /\ {muscu[i].name : i \in 1..Len(muscu)} = {training[i].session : i \in LogsOfDay(day)}
        /\ Len(muscu) = Cardinality({training[i].session : i \in LogsOfDay(day)})
        /\ Len(cardio) = Cardinality(SessionsOfDay(day))

\* C26: normalizeDate gives a DD/MM/YYYY or DD/MM/YY date and the YYYY-MM-DD
\* date of the same day the same key and is idempotent, so the data and the
\* details of a day hold every strength entry and cardio session stored for
\* that day under either format, and the tonnage of a session is the sum over
\* all of its entries of the day.
Thm_C26_CalendarDay ==
    /\ NormalizesToTheDay
    /\ \A day \in DaysShown : DetailsOfTheDay(day) /\ DataOfTheDay(day)

\* a day that holds entries of one session under both formats, and two
\* cardio sessions under both formats
Wit_C26_CalendarDay ==
    \E day \in DaysShown :
        /\ \E i, j \in LogsOfDay(day) :
              /\ IsIso(training[i].date) /\ ~IsIso(training[j].date)
              /\ training[i].session = training[j].session
        /\ \E i, j \in SessionsOfDay(day) :
              IsIso(activitySessions[i].date) /\ ~IsIso(activitySessions[j].date)
        /\ getDayDetails(DateStr(day), training, activitySessions, routines,
                         cardioTypes)[1].tonnage = 860

(***************************************************************************)
(* Selection and edit mode (SpecSel).                                      *)
(***************************************************************************)
\* C27: in every state of a journal, a share pending or settled included,
\* nothing is selected while edit mode is off; an id is added only in edit
\* mode, and a step that leaves edit mode empties the selection.
Thm_C27_SelectionInEditMode ==
    /\ [](~isEditMode => selectedIds = {})
    /\ [][(\E id \in selectedIds' : id \notin selectedIds) => isEditMode /\ isEditMode']_vars
    /\ [][(isEditMode /\ ~isEditMode') => selectedIds' = {}]_vars

\* a share has resolved in the journal that asked for it: selection mode is
\* left and nothing is selected
Wit_C27_SelectionInEditMode ==
    /\ lastOp.op = "shareResolve"
    /\ dlPc = "done"
    /\ activeTab \in {"atelier", "endurance"}
    /\ ~isEditMode
    /\ selectedIds = {}
    /\ shared # NoFile

(***************************************************************************)
(* What an export writes (SpecSel).                                        *)
(***************************************************************************)
\* the sessions that are selected and shown
ChosenIds == selectedIds \cap IdsOf(VisibleItems)

\* one row per set entry of a chosen session, in the order of the store
ChosenStrengthRows ==
    LET Chosen(log) == KeyOf(log) \in ChosenIds
        logs == SelectSeq(training, Chosen)
    IN  Forced([i \in 1..Len(logs) |-> StrengthRow(logs[i])])

\* one row per chosen cardio session
ChosenCardioRows ==
    LET Chosen(session) == session.id \in ChosenIds
        sessions == SelectSeq(activitySessions, Chosen)
    IN  Forced([i \in 1..Len(sessions) |-> CardioRow(sessions[i])])

CountIn(rows, row) == Cardinality({i \in 1..Len(rows) : rows[i] = row})

\* the same rows, each as many times, in any order
SameRows(a, b) ==
    /\ Len(a) = Len(b)
    /\ \A i \in 1..Len(a) : CountIn(a, a[i]) = CountIn(b, a[i])

\* the file of the call: handed to the share, or to the download link
FileWritten(content) == csvContent' = content \/ downloaded' = content

ExportAsStated ==
    LET headers == IF activeTab = "atelier" THEN StrengthHeaders ELSE CardioHeaders
        rows == IF activeTab = "atelier"
                THEN Forced(StrengthExportRows(VisibleItems, selectedIds))
                ELSE Forced(CardioExportRows(VisibleItems, selectedIds))
        chosen == IF activeTab = "atelier" THEN ChosenStrengthRows ELSE ChosenCardioRows
    IN  /\ SameRows(rows, chosen)
        /\ IF ChosenIds = {}
           THEN /\ rows = <<>>
                /\ downloaded' = NoFile
                /\ csvContent' \in {csvContent, NoFile}
                /\ shared' \in {shared, NoFile}
                /\ isEditMode' = isEditMode
                /\ selectedIds' = selectedIds
           ELSE /\ rows # <<>>
                /\ FileWritten(Serialize(headers, rows))

\* a step of the strength or cardio export handler
SessionExportStep ==
    activeTab \in {"atelier", "endurance"} /\ lastOp'.op = "export"

\* C28: the rows of a strength or cardio export are the set entries of the
\* sessions that are both selected and shown by the search, each once; a
\* selected session that the search hides is left out; and when no selected
\* session is shown no file is written and edit mode and the selection stay.
Thm_C28_ExportedRows == [][SessionExportStep => ExportAsStated]_vars

\* an export is on its way to the share while one of the selected sessions
\* is hidden by the search
Wit_C28_ExportedRows ==
    /\ activeTab \in {"atelier", "endurance"}
    /\ lastOp.op = "export"
    /\ dlPc = "sharing"
    /\ selectedIds \ IdsOf(VisibleItems) # {}
    /\ ChosenIds # {}
    /\ csvContent # NoFile

\* an export of hidden sessions alone: nothing is written
Wit_C28_NothingShown ==
    /\ activeTab \in {"atelier", "endurance"}
    /\ lastOp.op = "export"
    /\ selectedIds # {}
    /\ ChosenIds = {}
    /\ isEditMode
    /\ csvContent = NoFile
    /\ downloaded = NoFile

(***************************************************************************)
(* AtelierMuscu: handleCreateRoutine, and the journal of an athlete who    *)
(* names the routines (SpecNames).  The name field takes any text; the     *)
(* id is the clock's reading at the creation.                              *)
(***************************************************************************)
NewRoutineIds == <<"n1", "n2">>

MaxRoutines == Len(NewRoutineIds)

\* a blank name, a plain name, and a name that holds two colons in a row
RoutineNameChoices == { <<" ">>, <<"A">>, <<"A", ":", ":", "B">> }

HandleCreateRoutine(newRoutineName, newRoutineColor) ==
    /\ activeTab = "atelier"
    /\ trim(newRoutineName) # <<>>
    /\ Len(routines) < MaxRoutines
    /\ LET newId == NewRoutineIds[Len(routines) + 1]
       IN  /\ routines' = routines \o <<Routine(newId, newRoutineName, newRoutineColor)>>
           /\ editingRoutineId' = newId
    /\ lastOp' = Op("createRoutine")
    /\ streak' = 0
    /\ preSel' = {}
    /\ DeliverySettles
    /\ UNCHANGED <<activeTab, training, activitySessions, cardioTypes, nutrition, nutrients,
                   canShare, labVars, appVars, order, confirmDelete, viewVars, caller>>
    /\ Persist

InitNames ==
    /\ activeTab = "atelier"
    /\ training = <<>>
    /\ routines = <<>>
    /\ activitySessions = <<>>
    /\ cardioTypes = <<>>
    /\ nutrition = <<>>
    /\ nutrients = <<>>
    /\ canShare = FALSE
    /\ sleep = <<>>
    /\ today = StartDay
    /\ timeZoneWest = FALSE
    /\ FormInit
    /\ ViewInit
    /\ HistoryInit
    /\ DeliveryInit
    /\ args = NoArgs
    /\ aiData = Report("FLAT")
    /\ LabInit
    /\ StoredInit

NextNames ==
    \/ \E name \in RoutineNameChoices : HandleCreateRoutine(name, DefaultColor)
    \/ CloseRoutine
    \/ \E r \in Range(routines), sets \in SetsDataChoices :
           HandleSaveSession(r, <<"S", "q">>, sets)
    \/ \E item \in Range(VisibleItems), confirmed \in BOOLEAN :
           HandleDeleteTrainingSession(item, confirmed)

SpecNames == InitNames /\ [][NextNames]_vars

(***************************************************************************)
(* The timeline as a partition of the strength entries (SpecNames).        *)
(***************************************************************************)
\* the summaries that hold the stored entry at a position
SummariesHolding(i) ==
    {n \in 1..Len(Summaries) :
        \E k \in 1..Len(Summaries[n].logs) : Summaries[n].logs[k] = training[i]}

\* every entry is in one summary, and two entries are in the same summary
\* exactly when their dates and their session names are equal
GroupedByDateAndSession ==
    /\ \A i \in 1..Len(training) : Cardinality(SummariesHolding(i)) = 1
    /\ \A i, j \in 1..Len(training) :
           (SummariesHolding(i) = SummariesHolding(j))
               <=> (training[i].date = training[j].date
                    /\ training[i].session = training[j].session)

\* the date and the session name of a summary are those of its entries
FieldsOfTheMembers ==
    \A n \in 1..Len(Summaries) : \A k \in 1..Len(Summaries[n].logs) :
        /\ Summaries[n].logs[k].date = Summaries[n].date
        /\ Summaries[n].logs[k].session = Summaries[n].sessionName

\* the grouping itself is a partition by (date, session name), whatever the
\* names are
Thm_C29_Grouped == GroupedByDateAndSession

\* C29: for every name that can be given to a routine, the timeline is a
\* partition of the strength entries by (date, session name), and the date
\* and sessionName of each summary are those of each of its entries, so that
\* the deletion made from a summary removes that summary's entries.
Cex_C29_TimelinePartition == GroupedByDateAndSession /\ FieldsOfTheMembers

\* a deletion was confirmed on a card of the timeline and the store is still
\* full: the entries of that card are all there
Wit_C29_TimelinePartition ==
    /\ lastOp.op = "deleteSession"
    /\ Len(training) = MaxLogs
    /\ \E n \in 1..Len(Summaries) :
           /\ Summaries[n].date = lastOp.value[1]
           /\ Summaries[n].sessionName = lastOp.value[2]
           /\ Summaries[n].logs[1].session # lastOp.value[2]

====
